---- MODULE Spec2Model ----
(***************************************************************************)
(* Model of ModDependencyUpdater (src-tauri): the brace-aware build-script *)
(* editor of gradle.rs and the registry resolvers of cf.rs / mr.rs.        *)
(*                                                                         *)
(* A build script is a sequence of tokens; every token is the exact piece  *)
(* of text it stands for, so the script is the concatenation of its        *)
(* tokens and a byte offset of the source is a token offset here (0-based, *)
(* offset o lies between token o and token o+1).  The regular expressions  *)
(* of gradle.rs are evaluated on the tokens with the leftmost-first        *)
(* semantics of the regex crate.                                           *)
(***************************************************************************)
EXTENDS Integers, Sequences, FiniteSets, TLC

VARIABLES
    text,        \* the build script on disk
    prev,        \* the build script before the last operation
    prev2,       \* the build script before the last two operations
    lastOp,      \* the last operation applied
    prevOp,      \* the operation before it
    nops,        \* number of upserts applied so far
    args,        \* the arguments of the last composer / upsert call
    depLine,     \* what generate_dep / generate_mr_dep returned for them
    range,       \* what find_top_level_block_range returned
    blockName,   \* the block name it was asked for
    cfFiles,     \* latestFilesIndexes of the CurseForge mod-detail response
    mrVersions,  \* the Modrinth version list response
    query,       \* the requested platform version and loader
    result,      \* what the resolver returned
    fileText,    \* the file name or display name given to extract_version
    version,     \* what extract_version returned for it
    mcIndex,     \* the version index file cache/mc_versions.bin
    mcInput,     \* the version list given to an orderer
    mcOutput,    \* the list the orderer returned
    call,        \* the command invoked on the build script, with the registry's replies
    outcome,     \* what the command returned, None while it has not run
    refresh,     \* the manifest refreshes so far: requests sent, last result
    retry,       \* a send_with_retry call: its arguments, the network, what it did
    cache,       \* the files of the cache directory, by name
    clock,       \* what now_millis returns
    fetch        \* the last candidate-list call: its arguments, what it returned

vars == <<text, prev, prev2, lastOp, prevOp, nops, args, depLine, range, blockName,
          cfFiles, mrVersions, query, result, fileText, version,
          mcIndex, mcInput, mcOutput, call, outcome, refresh, retry,
          cache, clock, fetch>>

editVars == <<text, prev, prev2, lastOp, prevOp>>
upsertVars == <<nops, args, depLine>>
locateVars == <<range, blockName>>
resolveVars == <<cfFiles, mrVersions, query, result>>
extractVars == <<fileText, version>>

\* the variables of the parts that the editor and resolver operations leave alone
orderVars == <<mcIndex, mcInput, mcOutput>>
commandVars == <<call, outcome>>
fetchVars == <<cache, clock, fetch>>
netVars == <<refresh, retry, fetchVars>>
restVars == <<extractVars, orderVars, commandVars, netVars>>

----------------------------------------------------------------------------
(* Tokens *)

NL == "\n"
SP == " "
IND4 == "    "
IND8 == "        "
IND12 == "            "
LB == "{"
RB == "}"
COLON == ":"
DASH == "-"
QUOTE == "\""
REPOSITORIES == "repositories"
DEPENDENCIES == "dependencies"
PLUGINS == "plugins"
CURSE_URL == "https://cursemaven.com"
CURSE_GROUP == "curse.maven"
MODRINTH_URL == "https://api.modrinth.com/maven"
MODRINTH_GROUP == "maven.modrinth"

\* \s of the regex crate and char::is_whitespace, on the tokens of the model
IsSpace(t) == t \in {NL, SP, IND4, IND8, IND12}

None == <<>>

Min(S) == CHOOSE x \in S : \A y \in S : x <= y
Max(S) == CHOOSE x \in S : \A y \in S : x >= y

\* s[..n], s[n..] and s[a..b] of a Rust slice
Take(s, n) == SubSeq(s, 1, n)
Drop(s, n) == SubSeq(s, n + 1, Len(s))
Slice(s, a, b) == SubSeq(s, a + 1, b)

\* str::contains for a pattern that is one token
Contains(s, t) == \E i \in 1..Len(s) : s[i] = t

\* str::ends_with('\n')
EndsWithNL(s) == Len(s) > 0 /\ s[Len(s)] = NL

\* offset of the first non-whitespace token at or after offset o (Len(s) if none)
RECURSIVE SkipSpace(_, _)
SkipSpace(s, o) == IF o < Len(s) /\ IsSpace(s[o + 1]) THEN SkipSpace(s, o + 1) ELSE o

\* (?m)^ : offset o is the start of a line
IsLineStart(s, o) == o = 0 \/ s[o] = NL

----------------------------------------------------------------------------
(* gradle.rs: block locator *)

NoMatch == 0 - 1

\* RE_REPOSITORIES / RE_DEPENDENCIES, (?m)^\s*<name>\s*\{ , tried at offset o:
\* the offset just after the opening brace, or NoMatch
BlockReMatchEnd(src, o, name) ==
    IF ~IsLineStart(src, o) THEN NoMatch
    ELSE LET p == SkipSpace(src, o)
         IN IF p < Len(src) /\ src[p + 1] = name
            THEN LET k == SkipSpace(src, p + 1)
                 IN IF k < Len(src) /\ src[k + 1] = LB THEN k + 1 ELSE NoMatch
            ELSE NoMatch

\* the loop of lines 11-18: saturating brace depth of a prefix
RECURSIVE DepthFrom(_, _, _)
DepthFrom(s, i, depth) ==
    IF i > Len(s) THEN depth
    ELSE IF s[i] = LB THEN DepthFrom(s, i + 1, depth + 1)
    ELSE IF s[i] = RB /\ depth > 0 THEN DepthFrom(s, i + 1, depth - 1)
    ELSE DepthFrom(s, i + 1, depth)

PrefixDepth(src, o) == DepthFrom(Take(src, o), 1, 0)

\* a walk that stops at the first closing brace, whatever was opened before it
RECURSIVE BlockEndFirstClose(_, _, _)
BlockEndFirstClose(src, pos, brace) ==
    IF pos < Len(src)
    THEN IF src[pos + 1] = RB THEN pos ELSE BlockEndFirstClose(src, pos + 1, brace)
    ELSE Len(src)

\* the loop of lines 20-31: walk to the brace that closes the opened block
RECURSIVE BlockEnd(_, _, _)
BlockEnd(src, pos, brace) ==
    IF pos < Len(src) /\ brace > 0
    THEN IF src[pos + 1] = LB THEN BlockEnd(src, pos + 1, brace + 1)
         ELSE IF src[pos + 1] = RB THEN BlockEnd(src, pos + 1, brace - 1)
         ELSE BlockEnd(src, pos + 1, brace)
    ELSE IF brace = 0 THEN pos - 1 ELSE Len(src)

\* re.find_iter(src) from offset `from` on: the leftmost match at or after it
NextBlockMatch(src, from, name) ==
    LET S == {o \in from..Len(src) : BlockReMatchEnd(src, o, name) # NoMatch}
    IN IF S = {} THEN NoMatch ELSE Min(S)

\* a search that takes the first match without looking at the depth before it
FindBlockAnyDepth(src, from, name) ==
    LET m == NextBlockMatch(src, from, name)
    IN IF m = NoMatch THEN None
       ELSE LET e == BlockReMatchEnd(src, m, name)
            IN <<e, BlockEnd(src, e, 1)>>

RECURSIVE FindBlockFrom(_, _, _)
FindBlockFrom(src, from, name) ==
    LET m == NextBlockMatch(src, from, name)
    IN IF m = NoMatch THEN None
       ELSE LET e == BlockReMatchEnd(src, m, name)
            IN IF PrefixDepth(src, m) = 0
               THEN <<e, BlockEnd(src, e, 1)>>
               ELSE FindBlockFrom(src, e, name)

\* a locator that gives up on a block that is never closed
FindClosedBlockOnly(src, name) ==
    LET r == FindBlockFrom(src, 0, name)
    IN IF r # None /\ r[2] = Len(src) THEN None ELSE r

find_top_level_block_range(src, name) == FindBlockFrom(src, 0, name)

----------------------------------------------------------------------------
(* gradle.rs: repository declaration ensurer *)

curse_repo ==
    <<IND4, "maven", SP, LB, NL,
      IND8, "name = \"Curse Maven\"", NL,
      IND8, "url = ", QUOTE, CURSE_URL, QUOTE, NL,
      IND8, "content", SP, LB, NL,
      IND12, "includeGroup ", QUOTE, CURSE_GROUP, QUOTE, NL,
      IND8, RB, NL,
      IND4, RB>>

modrinth_repo ==
    <<IND4, "maven", SP, LB, NL,
      IND8, "name = \"Modrinth\"", NL,
      IND8, "url = ", QUOTE, MODRINTH_URL, QUOTE, NL,
      IND4, RB>>

\* build_gradle.trim_start().starts_with("plugins {")
StartsWithPlugins(s) ==
    LET p == SkipSpace(s, 0)
    IN p + 3 <= Len(s) /\ s[p + 1] = PLUGINS /\ s[p + 2] = SP /\ s[p + 3] = LB

\* the offset after the last closing brace of the script
PluginsEndLastClose(s) ==
    LET S == {i \in 1..Len(s) : s[i] = RB}
    IN IF S = {} THEN 0 ELSE Max(S)

\* build_gradle.find('}').map(|i| i + 1).unwrap_or(0)
PluginsEnd(s) ==
    LET S == {i \in 1..Len(s) : s[i] = RB}
    IN IF S = {} THEN 0 ELSE Min(S)

\* an insertion that splits an existing block one place late, after its closing brace
InsertRepoAfterClose(build_gradle, repo) ==
    LET r == find_top_level_block_range(build_gradle, REPOSITORIES)
    IN IF r # None
       THEN LET cut == Min({r[2] + 1, Len(build_gradle)})
                inside == Slice(build_gradle, r[1], cut)
                prefix == IF EndsWithNL(inside) THEN <<>> ELSE <<NL>>
            IN Take(build_gradle, cut) \o prefix \o repo \o <<NL>> \o Drop(build_gradle, cut)
       ELSE IF StartsWithPlugins(build_gradle)
       THEN LET plugins_end == PluginsEnd(build_gradle)
            IN Take(build_gradle, plugins_end)
                 \o <<NL, NL, REPOSITORIES, SP, LB, NL>> \o repo \o <<NL, RB, NL, NL>>
                 \o Drop(build_gradle, plugins_end)
       ELSE <<REPOSITORIES, SP, LB, NL>> \o repo \o <<NL, RB, NL, NL>> \o build_gradle

\* lines 51-70 and 83-100: the three insertion branches
InsertRepo(build_gradle, repo) ==
    LET r == find_top_level_block_range(build_gradle, REPOSITORIES)
    IN IF r # None
       THEN LET before == Take(build_gradle, r[1])
                inside == Slice(build_gradle, r[1], r[2])
                after == Drop(build_gradle, r[2])
                prefix == IF EndsWithNL(inside) THEN <<>> ELSE <<NL>>
            IN before \o inside \o prefix \o repo \o <<NL>> \o after
       ELSE IF StartsWithPlugins(build_gradle)
       THEN LET plugins_end == PluginsEnd(build_gradle)
            IN Take(build_gradle, plugins_end)
                 \o <<NL, NL, REPOSITORIES, SP, LB, NL>> \o repo \o <<NL, RB, NL, NL>>
                 \o Drop(build_gradle, plugins_end)
       ELSE <<REPOSITORIES, SP, LB, NL>> \o repo \o <<NL, RB, NL, NL>> \o build_gradle

\* a marker check for the address with the www prefix only
HasCurseMarkerWww(s) == Contains(s, "https://www.cursemaven.com")

HasCurseMarker(s) == Contains(s, CURSE_URL) \/ Contains(s, CURSE_GROUP)

HasModrinthMarker(s) == Contains(s, MODRINTH_URL)

\* an ensurer without the early return of line 39
EnsureCurseUnchecked(build_gradle) == InsertRepo(build_gradle, curse_repo)

ensure_curse_maven_repo(build_gradle) ==
    IF HasCurseMarker(build_gradle) THEN build_gradle
    ELSE InsertRepo(build_gradle, curse_repo)

\* an ensurer that puts a newline before the stanza whatever the block ends with
EnsureModrinthAlwaysNewline(build_gradle) ==
    IF HasModrinthMarker(build_gradle) THEN build_gradle
    ELSE LET r == find_top_level_block_range(build_gradle, REPOSITORIES)
         IN IF r # None
            THEN Take(build_gradle, r[2]) \o <<NL>> \o modrinth_repo \o <<NL>>
                   \o Drop(build_gradle, r[2])
            ELSE InsertRepo(build_gradle, modrinth_repo)

ensure_modrinth_maven_repo(build_gradle) ==
    IF HasModrinthMarker(build_gradle) THEN build_gradle
    ELSE InsertRepo(build_gradle, modrinth_repo)

----------------------------------------------------------------------------
(* gradle.rs: dependency line composer *)

\* the loader names a caller may pass
LoaderNames ==
    {"forge", "Forge", "FORGE", "fabric", "Fabric", "quilt", "Quilt",
     "neoforge", "NeoForge", "liteloader", "LiteLoader", "rift", "unknown", "bogus", ""}

\* str::to_lowercase on those names
to_lowercase(nm) ==
    CASE nm \in {"Forge", "FORGE"} -> "forge"
      [] nm = "Fabric" -> "fabric"
      [] nm = "Quilt" -> "quilt"
      [] nm = "NeoForge" -> "neoforge"
      [] nm \in {"LiteLoader", "Liteloader"} -> "liteloader"
      [] nm = "Rift" -> "rift"
      [] nm = "Unknown" -> "unknown"
      [] nm = "Snapshot" -> "snapshot"
      [] nm = "CurseForge" -> "curseforge"
      [] nm = "Modrinth" -> "modrinth"
      [] OTHER -> nm

Ok(line) == [ok |-> TRUE, line |-> line]
Err(msg) == [ok |-> FALSE, err |-> msg]

\* a composer that matches the loader name as it was passed
DepLineForCaseSensitive(loader, coordinate) ==
    CASE loader = "forge" ->
            Ok(<<IND4, "implementation", SP, "fg.deobf(", QUOTE>> \o coordinate \o <<QUOTE, ")">>)
      [] loader \in {"fabric", "quilt"} ->
            Ok(<<IND4, "modImplementation", SP, QUOTE>> \o coordinate \o <<QUOTE>>)
      [] loader = "neoforge" ->
            Ok(<<IND4, "implementation", SP, QUOTE>> \o coordinate \o <<QUOTE>>)
      [] OTHER -> Err(<<"Unknown loader: ", loader>>)

\* lines 105-110 and 115-120: the dialect of a loader around a coordinate
DepLineFor(loader, coordinate) ==
    LET l == to_lowercase(loader)
    IN CASE l = "forge" ->
              Ok(<<IND4, "implementation", SP, "fg.deobf(", QUOTE>> \o coordinate \o <<QUOTE, ")">>)
         [] l \in {"fabric", "quilt"} ->
              Ok(<<IND4, "modImplementation", SP, QUOTE>> \o coordinate \o <<QUOTE>>)
         [] l = "neoforge" ->
              Ok(<<IND4, "implementation", SP, QUOTE>> \o coordinate \o <<QUOTE>>)
         [] OTHER -> Err(<<"Unknown loader: ", loader>>)

\* modid is a string here, file_id a u32 written in decimal
generate_dep(loader, slug, modid, file_id) ==
    DepLineFor(loader, <<CURSE_GROUP, COLON, slug, DASH, modid, COLON, ToString(file_id)>>)

generate_mr_dep(loader, slug, version_id) ==
    DepLineFor(loader, <<MODRINTH_GROUP, COLON, slug, COLON, version_id>>)

----------------------------------------------------------------------------
(* gradle.rs: dependency upsert *)

\* the numbers and names the scripts and requests of the model are made of
ProjectIds == {11, 22}
FileIds == {100, 101, 102, 300}
Slugs == {"jei", "jade", "sodium"}
VersionIds == {"v0", "v1", "v2"}

\* \d+ : the tokens that are decimal numbers
IsDigits(t) == t \in {ToString(n) : n \in ProjectIds \cup FileIds}

\* [A-Za-z0-9.-]+ : the tokens made of such characters only
IsVersionChars(t) ==
    \/ IsDigits(t)
    \/ t \in Slugs \cup VersionIds
    \/ t \in {DASH, "x", "maven", "content", "implementation", "modImplementation",
              "compileOnly", REPOSITORIES, DEPENDENCIES, PLUGINS, CURSE_GROUP, MODRINTH_GROUP}

\* [0-9A-Za-z_]+ : what a $name reference of a replacement string swallows
IsRefNameChars(t) == IsVersionChars(t) /\ t \notin {DASH, CURSE_GROUP, MODRINTH_GROUP}

\* \d+ and [A-Za-z0-9.-]+ are greedy: index of the last token of the run of such
\* tokens that starts at token i
RECURSIVE DigitsEnd(_, _)
DigitsEnd(s, i) == IF i < Len(s) /\ IsDigits(s[i + 1]) THEN DigitsEnd(s, i + 1) ELSE i

RECURSIVE VersionCharsEnd(_, _)
VersionCharsEnd(s, i) ==
    IF i < Len(s) /\ IsVersionChars(s[i + 1]) THEN VersionCharsEnd(s, i + 1) ELSE i

\* index of the first ":" after token i (0 if none)
NextColon(s, i) ==
    LET S == {c \in (i + 1)..Len(s) : s[c] = COLON}
    IN IF S = {} THEN 0 ELSE Min(S)

\* curse\.maven:[^:]*-<modid>:\d+ tried at token q: the index of its last token (0 if
\* it does not match).  [^:]* stops at the first ":" (newlines included), so "-<modid>"
\* are the two tokens before that colon.
CfCoordEnd(s, q, modid) ==
    IF q + 1 <= Len(s) /\ s[q] = CURSE_GROUP /\ s[q + 1] = COLON
    THEN LET c == NextColon(s, q + 1)
         IN IF c >= q + 4 /\ s[c - 2] = DASH /\ s[c - 1] = modid
               /\ c + 1 <= Len(s) /\ IsDigits(s[c + 1])
            THEN DigitsEnd(s, c + 1)
            ELSE 0
    ELSE 0

\* maven\.modrinth:<slug>:[A-Za-z0-9.-]+ tried at token q, likewise
MrCoordEnd(s, q, slug) ==
    IF q + 4 <= Len(s) /\ s[q] = MODRINTH_GROUP /\ s[q + 1] = COLON
         /\ s[q + 2] = slug /\ s[q + 3] = COLON /\ IsVersionChars(s[q + 4])
    THEN VersionCharsEnd(s, q + 4)
    ELSE 0

CoordEnd(reg, s, q, id) ==
    IF reg = "cf" THEN CfCoordEnd(s, q, id) ELSE MrCoordEnd(s, q, id)

\* offset of the end of the line that holds offset o
RECURSIVE LineEnd(_, _)
LineEnd(s, o) == IF o < Len(s) /\ s[o + 1] # NL THEN LineEnd(s, o + 1) ELSE o

\* (?m)^\s*.*<coordinate>.*$ tried at line start o: the offset where the match
\* ends, or NoMatch.  \s* runs over blank lines down to the first token that is
\* not whitespace, .* stays on that token's line, and the greedy .* takes the last
\* coordinate of the line.
LineReMatchEnd(reg, s, o, id) ==
    LET p == SkipSpace(s, o)
        Q == {q \in (p + 1)..LineEnd(s, p) : CoordEnd(reg, s, q, id) # 0}
    IN IF Q = {} THEN NoMatch ELSE LineEnd(s, CoordEnd(reg, s, Max(Q), id))

\* pattern.find(build_gradle): the leftmost match <<start, end>>, or None
FindDeclaration(reg, s, id) ==
    LET S == {o \in 0..Len(s) : IsLineStart(s, o) /\ LineReMatchEnd(reg, s, o, id) # NoMatch}
    IN IF S = {} THEN None ELSE <<Min(S), LineReMatchEnd(reg, s, Min(S), id)>>

\* what the source writes as r"curse\\.maven" and r"maven\\.modrinth": in a raw
\* string that is a backslash followed by any character, so only a text such as
\* curse\.maven matches it
CURSE_GROUP_ESCAPED == "curse\\.maven"
MODRINTH_GROUP_ESCAPED == "maven\\.modrinth"

\* lines 149-153: curse\\.maven:[^:]+-\d+:(\d+) captured from the new line
CfNewId(dep_line) ==
    LET Q == {q \in 1..Len(dep_line) :
                /\ dep_line[q] = CURSE_GROUP_ESCAPED
                /\ q + 1 <= Len(dep_line) /\ dep_line[q + 1] = COLON
                /\ LET c == NextColon(dep_line, q + 1)
                   IN /\ c >= q + 5 /\ c + 1 <= Len(dep_line)
                      /\ IsDigits(dep_line[c - 1]) /\ dep_line[c - 2] = DASH
                      /\ IsDigits(dep_line[c + 1])}
    IN IF Q = {} THEN None
       ELSE LET c == NextColon(dep_line, Min(Q) + 1)
            IN SubSeq(dep_line, c + 1, DigitsEnd(dep_line, c + 1))

\* lines 184-188: maven\\.modrinth:[^:]+:([A-Za-z0-9.-]+) captured from the new line
MrNewId(dep_line) ==
    LET Q == {q \in 1..Len(dep_line) :
                /\ dep_line[q] = MODRINTH_GROUP_ESCAPED
                /\ q + 1 <= Len(dep_line) /\ dep_line[q + 1] = COLON
                /\ LET c == NextColon(dep_line, q + 1)
                   IN /\ c >= q + 3 /\ c + 1 <= Len(dep_line)
                      /\ IsVersionChars(dep_line[c + 1])}
    IN IF Q = {} THEN None
       ELSE LET c == NextColon(dep_line, Min(Q) + 1)
            IN SubSeq(dep_line, c + 1, VersionCharsEnd(dep_line, c + 1))

NewId(reg, dep_line) == IF reg = "cf" THEN CfNewId(dep_line) ELSE MrNewId(dep_line)

\* the replacement string format!("$1{}", nid) as the regex crate expands it: the
\* reference name is the longest run of [0-9A-Za-z_] after the "$", so it is "1"
\* followed by the leading such tokens of nid; no group has that name and the
\* reference expands to nothing.  What is left of nid follows literally.
RECURSIVE DropRefName(_)
DropRefName(nid) ==
    IF Len(nid) > 0 /\ IsRefNameChars(Head(nid)) THEN DropRefName(Tail(nid)) ELSE nid

\* id_re.replace(line, format!("$1{}", nid)): the first coordinate of the line
ReplaceId(reg, line, id, nid) ==
    LET Q == {q \in 1..Len(line) : CoordEnd(reg, line, q, id) # 0}
    IN IF Q = {} THEN line
       ELSE Take(line, Min(Q) - 1) \o DropRefName(nid)
              \o Drop(line, CoordEnd(reg, line, Min(Q), id))

\* an insertion that takes the first dependencies block at whatever depth
InsertIntoFirstDependenciesBlock(build_gradle, dep_line) ==
    LET r == FindBlockAnyDepth(build_gradle, 0, DEPENDENCIES)
    IN IF r # None
       THEN LET before == Take(build_gradle, r[1])
                inside == Slice(build_gradle, r[1], r[2])
                after == Drop(build_gradle, r[2])
                prefix == IF EndsWithNL(inside) THEN <<>> ELSE <<NL>>
            IN before \o inside \o prefix \o dep_line \o <<NL>> \o after
       ELSE build_gradle \o <<NL, DEPENDENCIES, SP, LB, NL>> \o dep_line \o <<NL, RB, NL>>

\* lines 123-134
insert_into_dependencies_block(build_gradle, dep_line) ==
    LET r == find_top_level_block_range(build_gradle, DEPENDENCIES)
    IN IF r # None
       THEN LET before == Take(build_gradle, r[1])
                inside == Slice(build_gradle, r[1], r[2])
                after == Drop(build_gradle, r[2])
                prefix == IF EndsWithNL(inside) THEN <<>> ELSE <<NL>>
            IN before \o inside \o prefix \o dep_line \o <<NL>> \o after
       ELSE build_gradle \o <<NL, DEPENDENCIES, SP, LB, NL>> \o dep_line \o <<NL, RB, NL>>

\* lines 143-161 and 175-196
Upsert(reg, build_gradle, id, dep_line) ==
    LET mat == FindDeclaration(reg, build_gradle, id)
    IN IF mat # None
       THEN LET before == Take(build_gradle, mat[1])
                line == Slice(build_gradle, mat[1], mat[2])
                after == Drop(build_gradle, mat[2])
                new_id == NewId(reg, dep_line)
            IN IF new_id # None
               THEN before \o ReplaceId(reg, line, id, new_id) \o after
               ELSE before \o dep_line \o after
       ELSE insert_into_dependencies_block(build_gradle, dep_line)

update_or_insert_dependency(build_gradle, modid, dep_line) ==
    Upsert("cf", build_gradle, modid, dep_line)

update_or_insert_dependency_mr(build_gradle, project_slug, dep_line) ==
    Upsert("mr", build_gradle, project_slug, dep_line)

----------------------------------------------------------------------------
(* Build scripts on disk: every concatenation of up to MaxChunks pieces,   *)
(* and every script of up to MaxLines lines taken from a set of lines.     *)

MaxChunks == 3
MaxLines == 4

SeqsUpTo(S, n) == UNION {[1..k -> S] : k \in 0..n}

RECURSIVE Flatten(_)
Flatten(ss) == IF Len(ss) = 0 THEN <<>> ELSE Head(ss) \o Flatten(Tail(ss))

RECURSIVE JoinLines(_)
JoinLines(ls) ==
    IF Len(ls) = 0 THEN <<>>
    ELSE IF Len(ls) = 1 THEN ls[1]
    ELSE ls[1] \o <<NL>> \o JoinLines(Tail(ls))

ScriptsOf(chunks, nc, lines, nl) ==
    {Flatten(cs) : cs \in SeqsUpTo(chunks, nc)} \cup {JoinLines(ls) : ls \in SeqsUpTo(lines, nl)}

RepoChunks ==
    {<<LB>>, <<RB>>, <<NL>>, <<SP>>, <<REPOSITORIES>>, <<PLUGINS>>, <<"x">>,
     <<CURSE_GROUP>>, <<MODRINTH_URL>>}

RepoLines ==
    { <<>>,
      <<REPOSITORIES, SP, LB>>,
      <<IND4, REPOSITORIES, SP, LB>>,
      <<RB>>,
      <<PLUGINS, SP, LB>>,
      <<"x", SP, LB>>,
      <<IND4, "x">>,
      <<IND4, "// ", CURSE_URL>>,
      <<IND4, "url ", QUOTE, MODRINTH_URL, QUOTE>> }

RepoScripts == ScriptsOf(RepoChunks, MaxChunks, RepoLines, MaxLines)

NoArgs == [op |-> "none"]

UpsertIdle == nops = 0 /\ args = NoArgs /\ depLine = None
LocateIdle == range = None /\ blockName = ""
ResolveIdle == cfFiles = <<>> /\ mrVersions = <<>> /\ query = NoArgs /\ result = None
ExtractIdle == fileText = <<>> /\ version = None

\* no index file yet, no orderer called
NoIndex == [readable |-> FALSE]
OrderIdle == mcIndex = NoIndex /\ mcInput = <<>> /\ mcOutput = None

CommandIdle == call = NoArgs /\ outcome = None

\* an empty cache directory, no candidate list asked for
FetchIdle == cache = <<>> /\ clock = 0 /\ fetch = None

NetIdle == refresh = None /\ retry = None /\ FetchIdle

RestIdle == ExtractIdle /\ OrderIdle /\ CommandIdle /\ NetIdle

----------------------------------------------------------------------------
(* The repository ensurer applied to the build script, any number of times *)

InitRepo ==
    /\ RestIdle
    /\ text \in RepoScripts
    /\ prev = text
    /\ prev2 = text
    /\ lastOp = "init"
    /\ prevOp = "init"
    /\ UpsertIdle
    /\ LocateIdle
    /\ ResolveIdle

EnsureCurse ==
    /\ UNCHANGED restVars
    /\ text' = ensure_curse_maven_repo(text)
    /\ prev' = text
    /\ prev2' = prev
    /\ lastOp' = "ensure_curse"
    /\ prevOp' = lastOp
    /\ UNCHANGED <<upsertVars, locateVars, resolveVars>>

EnsureModrinth ==
    /\ UNCHANGED restVars
    /\ text' = ensure_modrinth_maven_repo(text)
    /\ prev' = text
    /\ prev2' = prev
    /\ lastOp' = "ensure_modrinth"
    /\ prevOp' = lastOp
    /\ UNCHANGED <<upsertVars, locateVars, resolveVars>>

NextRepo == EnsureCurse \/ EnsureModrinth

SpecRepo == InitRepo /\ [][NextRepo]_vars

----------------------------------------------------------------------------
(* What the claims say about a script, stated on the tokens directly *)

\* number of tokens t at offsets [a, b)
CountTok(s, t, a, b) == Cardinality({i \in (a + 1)..b : s[i] = t})

\* no prefix of the tokens at offsets [i, q) holds more closing than opening
\* braces, bal being the surplus of opening braces so far
RECURSIVE NeverNegative(_, _, _, _)
NeverNegative(s, i, q, bal) ==
    IF bal < 0 THEN FALSE
    ELSE IF i >= q THEN TRUE
    ELSE NeverNegative(s, i + 1, q,
                       IF s[i + 1] = LB THEN bal + 1
                       ELSE IF s[i + 1] = RB THEN bal - 1 ELSE bal)

\* a block whose opening brace ends at offset e is not closed anywhere in [e, q)
StaysOpen(s, e, q) == NeverNegative(s, e, q, 0)

\* every token before token n on its line is whitespace
LineAnchored(s, n) ==
    LET nls == {k \in 1..(n - 1) : s[k] = NL}
        ls == IF nls = {} THEN 0 ELSE Max(nls)
    IN \A j \in (ls + 1)..(n - 1) : IsSpace(s[j])

\* the opening brace that follows token n after whitespace only (0 if none)
BraceAfter(s, n) ==
    LET e == SkipSpace(s, n) + 1
    IN IF e <= Len(s) /\ s[e] = LB THEN e ELSE 0

\* the tokens that are a line-anchored block name followed by its opening brace
BlockNames(s, name) ==
    {n \in 1..Len(s) : s[n] = name /\ BraceAfter(s, n) # 0 /\ LineAnchored(s, n)}

\* token n lies inside some block: a brace opened before it is still open
Enclosed(s, n) == \E i \in 1..(n - 1) : s[i] = LB /\ StaysOpen(s, i, n - 1)

\* the opening braces of the blocks of that name, and of the top-level ones
BlockOpeners(s, name) == {BraceAfter(s, n) : n \in BlockNames(s, name)}

TopLevelOpeners(s, name) ==
    {BraceAfter(s, n) : n \in {m \in BlockNames(s, name) : ~Enclosed(s, m)}}

\* the tokens at offsets [a, b) lie inside a repositories block
InsideRepoBlock(s, a, b) ==
    \E e \in BlockOpeners(s, REPOSITORIES) : e <= a /\ StaysOpen(s, e, b)

StanzaAt(s, p, repo) ==
    p + Len(repo) <= Len(s) /\ Slice(s, p, p + Len(repo)) = repo

StanzaCount(s, repo) == Cardinality({p \in 0..Len(s) : StanzaAt(s, p, repo)})

\* the script declares the repository: its url stands inside a repositories block
DeclaresRepo(s, url) ==
    \E i \in 1..Len(s) : s[i] = url /\ InsideRepoBlock(s, i - 1, i)

\* the stanza the ensurer writes stands, whole, inside a repositories block
DeclaresStanza(s, repo) ==
    \E p \in 0..Len(s) : StanzaAt(s, p, repo) /\ InsideRepoBlock(s, p, p + Len(repo))

----------------------------------------------------------------------------
(* C1..C4: repository ensurer *)

\* C1: ensuring a repository a second time changes nothing, whichever branch
\* the first call took: the text an ensure call returned is a fixed point of it.
EnsureRepoIdempotent ==
    /\ lastOp = "ensure_curse" => ensure_curse_maven_repo(text) = text
    /\ lastOp = "ensure_modrinth" => ensure_modrinth_maven_repo(text) = text

\* C1 witness: a first call that inserted after a plugins block
EnsureRepoIdempotentWitness ==
    /\ lastOp = "ensure_curse" /\ prevOp = "init"
    /\ text # prev
    /\ StartsWithPlugins(prev)
    /\ find_top_level_block_range(prev, REPOSITORIES) = None

\* C3 as stated: after an ensure call, for every input, the url stands inside a
\* repositories block.
EnsureAlwaysDeclares ==
    /\ lastOp = "ensure_curse" => DeclaresRepo(text, CURSE_URL)
    /\ lastOp = "ensure_modrinth" => DeclaresRepo(text, MODRINTH_URL)

\* C3 amended: when the input holds none of the repository's markers, the output
\* holds the repository stanza, whole, inside a repositories block.
EnsureDeclaresWhenMarkerAbsent ==
    /\ (lastOp = "ensure_curse" /\ ~HasCurseMarker(prev))
          => DeclaresStanza(text, curse_repo) /\ DeclaresRepo(text, CURSE_URL)
    /\ (lastOp = "ensure_modrinth" /\ ~HasModrinthMarker(prev))
          => DeclaresStanza(text, modrinth_repo) /\ DeclaresRepo(text, MODRINTH_URL)

\* C3 witness: the stanza went into an existing top-level repositories block
EnsureDeclaresWitness ==
    /\ lastOp = "ensure_modrinth"
    /\ ~HasModrinthMarker(prev)
    /\ find_top_level_block_range(prev, REPOSITORIES) # None
    /\ DeclaresStanza(text, modrinth_repo)

RepoOf(op) == IF op = "ensure_curse" THEN curse_repo ELSE modrinth_repo

HasMarkerOf(op, s) ==
    IF op = "ensure_curse" THEN HasCurseMarker(s) ELSE HasModrinthMarker(s)

TwiceInARow == lastOp = prevOp /\ lastOp \in {"ensure_curse", "ensure_modrinth"}

\* the script begins with a plugins block and its first closing brace closes a
\* block nested in it, not the plugins block
PluginsFirstCloseNested(s) ==
    /\ StartsWithPlugins(s)
    /\ \E i \in 1..Len(s) : s[i] = RB /\ CountTok(s, RB, 0, i - 1) = 0
                             /\ CountTok(s, LB, 0, i) >= 2

\* C4 as stated: no repositories block in the script, the same repository ensured
\* twice in a row: exactly one top-level repositories block, exactly one stanza.
NoDuplicateInsertion ==
    (TwiceInARow /\ BlockOpeners(prev2, REPOSITORIES) = {})
        => /\ Cardinality(TopLevelOpeners(text, REPOSITORIES)) = 1
           /\ StanzaCount(text, RepoOf(lastOp)) = 1

\* C4 amended: the script must not hold the repository's marker either; then there
\* is exactly one repositories block and one stanza, and the block is top-level
\* unless the script begins with a plugins block whose first closing brace is
\* nested in it.
NoDuplicateInsertionMarkerAbsent ==
    (TwiceInARow /\ BlockOpeners(prev2, REPOSITORIES) = {} /\ ~HasMarkerOf(lastOp, prev2))
        => /\ Cardinality(BlockOpeners(text, REPOSITORIES)) = 1
           /\ StanzaCount(text, RepoOf(lastOp)) = 1
           /\ (Cardinality(TopLevelOpeners(text, REPOSITORIES)) = 1
                 <=> ~PluginsFirstCloseNested(prev2))

\* C4 witness: two calls in a row on a script without block and marker
NoDuplicateInsertionWitness ==
    /\ TwiceInARow /\ lastOp = "ensure_curse"
    /\ BlockOpeners(prev2, REPOSITORIES) = {}
    /\ ~HasCurseMarker(prev2)
    /\ prev # prev2 /\ text = prev
    /\ Len(prev2) > 0

----------------------------------------------------------------------------
(* The block locator asked for a block of a build script *)

LocChunks ==
    {<<LB>>, <<RB>>, <<NL>>, <<SP>>, <<REPOSITORIES>>, <<DEPENDENCIES>>, <<"x">>}

LocLines ==
    { <<>>,
      <<REPOSITORIES, SP, LB>>,
      <<IND4, REPOSITORIES, SP, LB>>,
      <<DEPENDENCIES, SP, LB>>,
      <<"x", SP, LB>>,
      <<IND4, "x">>,
      <<RB>>,
      <<RB, SP, RB>>,
      <<REPOSITORIES, SP, LB, SP, "x", SP, LB, SP, RB, SP, "x", SP, RB>> }

LocScripts == ScriptsOf(LocChunks, MaxChunks, LocLines, MaxLines)

InitLocate ==
    /\ RestIdle
    /\ text \in LocScripts
    /\ prev = text
    /\ prev2 = text
    /\ lastOp = "init"
    /\ prevOp = "init"
    /\ UpsertIdle
    /\ LocateIdle
    /\ ResolveIdle

Locate(name) ==
    /\ UNCHANGED restVars
    /\ range' = find_top_level_block_range(text, name)
    /\ blockName' = name
    /\ lastOp' = "locate"
    /\ prevOp' = lastOp
    /\ UNCHANGED <<text, prev, prev2, upsertVars, resolveVars>>

NextLocate == \E name \in {REPOSITORIES, DEPENDENCIES} : Locate(name)

SpecLocate == InitLocate /\ [][NextLocate]_vars

----------------------------------------------------------------------------
(* C5, C6: block locator *)

\* token c is the closing brace that matches the opening brace at token o
MatchingClose(s, o, c) ==
    /\ s[c] = RB
    /\ StaysOpen(s, o, c - 1)
    /\ CountTok(s, LB, o, c - 1) = CountTok(s, RB, o, c - 1)

Balanced(s, o) == \E c \in (o + 1)..Len(s) : MatchingClose(s, o, c)

\* C5: for a located block whose braces balance, start is the offset just after
\* the block's opening brace, end is the offset of the closing brace matching
\* it, and every block nested in it is closed before end.
BlockRangeOfBalancedBlock ==
    (lastOp = "locate" /\ range # None)
        => /\ range[1] \in BlockOpeners(text, blockName)
           /\ Balanced(text, range[1])
                 => /\ range[2] < Len(text)
                    /\ MatchingClose(text, range[1], range[2] + 1)
                    /\ \A i \in (range[1] + 1)..range[2] :
                          text[i] = LB => \E c \in (i + 1)..range[2] : MatchingClose(text, i, c)

FooBarBaz == <<REPOSITORIES, SP, LB, SP, "x", SP, LB, SP, RB, SP, "x", SP, RB>>

\* C5 witness: `foo { bar { } baz }` is located as ` bar { } baz `
BlockRangeWitness ==
    /\ lastOp = "locate" /\ blockName = REPOSITORIES
    /\ text = FooBarBaz
    /\ range # None
    /\ Slice(text, range[1], range[2]) = <<SP, "x", SP, LB, SP, RB, SP, "x", SP>>

\* C18: a range the locator returns lies in the text, start <= end <= len(text);
\* a top-level block that is never closed is still located, and its range ends
\* at len(text).
BlockRangeWithinText ==
    lastOp = "locate"
        => /\ range # None
                => /\ 0 <= range[1] /\ range[1] <= range[2] /\ range[2] <= Len(text)
                   /\ ~Balanced(text, range[1]) => range[2] = Len(text)
           /\ TopLevelOpeners(text, blockName) # {} => range # None

\* C18 witness: the first top-level block is opened and never closed, with text
\* after the opening brace
UnclosedBlockWitness ==
    /\ lastOp = "locate" /\ range # None
    /\ ~Balanced(text, range[1])
    /\ range[1] < Len(text) /\ range[2] = Len(text)
    /\ Contains(Drop(text, range[1]), LB)

\* C6: the locator returns the first line-anchored occurrence of the block name
\* that no open brace encloses, and None exactly when there is none.
LocatorReturnsFirstTopLevel ==
    lastOp = "locate"
        => LET T == TopLevelOpeners(text, blockName)
           IN /\ range = None <=> T = {}
              /\ range # None => range[1] = Min(T)

\* C6 witness: a nested occurrence comes first and is passed over
LocatorSkipsNestedWitness ==
    /\ lastOp = "locate"
    /\ range # None
    /\ \E e \in BlockOpeners(text, blockName) : e < range[1]

----------------------------------------------------------------------------
(* C19, C20: where the ensurer inserts *)

EnsureOps == {"ensure_curse", "ensure_modrinth"}

StanzaOf(op) == IF op = "ensure_curse" THEN curse_repo ELSE modrinth_repo

MarkerAbsent(op, s) == IF op = "ensure_curse" THEN ~HasCurseMarker(s) ELSE ~HasModrinthMarker(s)

\* the tokens of the closing braces that match the opening brace at token o
ClosesOf(s, o) == {c \in (o + 1)..Len(s) : MatchingClose(s, o, c)}

\* C19: with the marker absent and a closed top-level repositories block, the
\* text after the call is the text before it with the stanza and a newline put
\* in just before the closing brace of the first such block, after one more
\* newline when the block body does not end with one; nothing else differs,
\* nested repositories blocks included.
InsertsBeforeClosingBrace ==
    (lastOp \in EnsureOps /\ MarkerAbsent(lastOp, prev)
       /\ TopLevelOpeners(prev, REPOSITORIES) # {})
        => LET o == Min(TopLevelOpeners(prev, REPOSITORIES))
           IN ClosesOf(prev, o) # {}
                 => LET c == Min(ClosesOf(prev, o))
                        body == Slice(prev, o, c - 1)
                        nl == IF Len(body) > 0 /\ body[Len(body)] = NL THEN <<>> ELSE <<NL>>
                    IN text = Take(prev, c - 1) \o nl \o StanzaOf(lastOp) \o <<NL>>
                                \o Drop(prev, c - 1)

\* C19 witness: a top-level block that holds a nested block of the same name
InsertsBeforeClosingBraceWitness ==
    /\ lastOp \in EnsureOps /\ MarkerAbsent(lastOp, prev)
    /\ TopLevelOpeners(prev, REPOSITORIES) # {}
    /\ ClosesOf(prev, Min(TopLevelOpeners(prev, REPOSITORIES))) # {}
    /\ BlockOpeners(prev, REPOSITORIES) # TopLevelOpeners(prev, REPOSITORIES)
    /\ text # prev

\* the script begins, after whitespace, with the word plugins and the opening
\* brace of its block
BeginsWithPluginsBlock(s) ==
    \E p \in 0..Len(s) :
       /\ \A i \in 1..p : IsSpace(s[i])
       /\ p + 1 <= Len(s) /\ s[p + 1] = PLUGINS /\ BraceAfter(s, p + 1) # 0

\* the script begins, after whitespace, with the very text `plugins {`
BeginsWithPluginsText(s) ==
    \E p \in 0..Len(s) :
       /\ \A i \in 1..p : IsSpace(s[i])
       /\ p + 3 <= Len(s) /\ s[p + 1] = PLUGINS /\ s[p + 2] = SP /\ s[p + 3] = LB

NewRepoBlock(repo) == <<REPOSITORIES, SP, LB, NL>> \o repo \o <<NL, RB>>

----------------------------------------------------------------------------
(* The dependency line composer called with a loader and a coordinate *)

InitCompose ==
    /\ RestIdle
    /\ text = <<>>
    /\ prev = <<>>
    /\ prev2 = <<>>
    /\ lastOp = "init"
    /\ prevOp = "init"
    /\ UpsertIdle
    /\ LocateIdle
    /\ ResolveIdle

ComposeCf(loader, slug, project, file_id) ==
    /\ UNCHANGED restVars
    /\ depLine' = generate_dep(loader, slug, ToString(project), file_id)
    /\ args' = [op |-> "generate_dep", loader |-> loader, slug |-> slug,
                id |-> ToString(project), file_id |-> file_id]
    /\ lastOp' = "generate_dep"
    /\ prevOp' = lastOp
    /\ UNCHANGED <<text, prev, prev2, nops, locateVars, resolveVars>>

ComposeMr(loader, slug, version_id) ==
    /\ UNCHANGED restVars
    /\ depLine' = generate_mr_dep(loader, slug, version_id)
    /\ args' = [op |-> "generate_mr_dep", loader |-> loader, slug |-> slug,
                id |-> slug, version_id |-> version_id]
    /\ lastOp' = "generate_mr_dep"
    /\ prevOp' = lastOp
    /\ UNCHANGED <<text, prev, prev2, nops, locateVars, resolveVars>>

NextCompose ==
    \/ \E loader \in LoaderNames, slug \in Slugs, project \in ProjectIds, file_id \in FileIds :
          ComposeCf(loader, slug, project, file_id)
    \/ \E loader \in LoaderNames, slug \in Slugs, version_id \in VersionIds :
          ComposeMr(loader, slug, version_id)

SpecCompose == InitCompose /\ [][NextCompose]_vars

----------------------------------------------------------------------------
(* C7: dependency line composition *)

ForgeNames == {"forge", "Forge", "FORGE"}
FabricQuiltNames == {"fabric", "Fabric", "quilt", "Quilt"}
NeoForgeNames == {"neoforge", "NeoForge"}

\* the coordinate the claim gives for the arguments of the last call
ClaimedCoordinate ==
    IF lastOp = "generate_dep"
    THEN <<"curse.maven", ":", args.slug, "-", args.id, ":", ToString(args.file_id)>>
    ELSE <<"maven.modrinth", ":", args.slug, ":", args.version_id>>

\* C7: forge (in any letter case) gives `    implementation fg.deobf("<coord>")`,
\* fabric and quilt `    modImplementation "<coord>"`, neoforge
\* `    implementation "<coord>"`, any other name the Unknown loader error; the
\* coordinate is curse.maven:<slug>-<projectId>:<fileId> resp.
\* maven.modrinth:<slug>:<versionId>; the forge and neoforge lines differ.
DialectSelection ==
    lastOp \in {"generate_dep", "generate_mr_dep"}
        => /\ args.loader \in ForgeNames
                => depLine = Ok(<<"    ", "implementation", " ", "fg.deobf(", "\"">>
                                  \o ClaimedCoordinate \o <<"\"", ")">>)
           /\ args.loader \in FabricQuiltNames
                => depLine = Ok(<<"    ", "modImplementation", " ", "\"">>
                                  \o ClaimedCoordinate \o <<"\"">>)
           /\ args.loader \in NeoForgeNames
                => depLine = Ok(<<"    ", "implementation", " ", "\"">>
                                  \o ClaimedCoordinate \o <<"\"">>)
           /\ args.loader \notin ForgeNames \cup FabricQuiltNames \cup NeoForgeNames
                => depLine = Err(<<"Unknown loader: ", args.loader>>)
           /\ DepLineFor("forge", ClaimedCoordinate) # DepLineFor("neoforge", ClaimedCoordinate)

\* C7 witness: a Modrinth line composed for a loader given in mixed case
DialectSelectionWitness ==
    /\ lastOp = "generate_mr_dep"
    /\ args.loader = "NeoForge"
    /\ depLine.ok
    /\ depLine.line = <<IND4, "implementation", SP, QUOTE, MODRINTH_GROUP, COLON,
                        args.slug, COLON, args.version_id, QUOTE>>

----------------------------------------------------------------------------
(* The dependency upsert applied to the build script *)

MaxDepChunks == 3
MaxDepLines == 3
MaxOps == 1

\* the module the upserts are for, by its CurseForge and its Modrinth identity
TargetSlug == "jei"
TargetProject == "11"
TargetMrSlug == "sodium"

UpsertLoaders == {"forge", "Fabric"}
NewFileIds == {101, 102}
NewVersionIds == {"v1", "v2"}

\* a declaration of the module as a user wrote it: own indentation, another
\* configuration, a trailing comment
OldCfLine ==
    <<IND8, "compileOnly", SP, QUOTE, CURSE_GROUP, COLON, TargetSlug, DASH,
      TargetProject, COLON, "100", QUOTE, SP, "// pinned">>

OldMrLine ==
    <<IND8, "compileOnly", SP, QUOTE, MODRINTH_GROUP, COLON, TargetMrSlug, COLON, "v0",
      QUOTE, SP, "// pinned">>

\* a declaration of another module
OtherCfLine == generate_dep("forge", "jade", "22", 300).line

DepChunks ==
    {<<LB>>, <<RB>>, <<NL>>, <<SP>>, <<DEPENDENCIES>>, <<"x">>,
     <<CURSE_GROUP, COLON, TargetSlug, DASH, TargetProject, COLON, "100">>,
     <<MODRINTH_GROUP, COLON, TargetMrSlug, COLON, "v0">>}

DepLines ==
    { <<>>,
      <<DEPENDENCIES, SP, LB>>,
      <<IND4, DEPENDENCIES, SP, LB>>,
      <<"x", SP, LB>>,
      <<RB>>,
      <<IND4, "x">>,
      OldCfLine,
      OldMrLine,
      OtherCfLine }

DepScripts == ScriptsOf(DepChunks, MaxDepChunks, DepLines, MaxDepLines)

InitDeps ==
    /\ RestIdle
    /\ text \in DepScripts
    /\ prev = text
    /\ prev2 = text
    /\ lastOp = "init"
    /\ prevOp = "init"
    /\ UpsertIdle
    /\ LocateIdle
    /\ ResolveIdle

\* generate_dep, then update_or_insert_dependency with the line it returned
UpsertCf(loader, file_id) ==
    /\ UNCHANGED restVars
    /\ nops < MaxOps
    /\ LET g == generate_dep(loader, TargetSlug, TargetProject, file_id)
       IN /\ depLine' = g
          /\ text' = IF g.ok
                     THEN update_or_insert_dependency(text, TargetProject, g.line)
                     ELSE text
    /\ args' = [op |-> "generate_dep", loader |-> loader, slug |-> TargetSlug,
                id |-> TargetProject, file_id |-> file_id]
    /\ nops' = nops + 1
    /\ prev' = text
    /\ prev2' = prev
    /\ lastOp' = "upsert_cf"
    /\ prevOp' = lastOp
    /\ UNCHANGED <<locateVars, resolveVars>>

\* generate_mr_dep, then update_or_insert_dependency_mr with the line it returned
UpsertMr(loader, version_id) ==
    /\ UNCHANGED restVars
    /\ nops < MaxOps
    /\ LET g == generate_mr_dep(loader, TargetMrSlug, version_id)
       IN /\ depLine' = g
          /\ text' = IF g.ok
                     THEN update_or_insert_dependency_mr(text, TargetMrSlug, g.line)
                     ELSE text
    /\ args' = [op |-> "generate_mr_dep", loader |-> loader, slug |-> TargetMrSlug,
                id |-> TargetMrSlug, version_id |-> version_id]
    /\ nops' = nops + 1
    /\ prev' = text
    /\ prev2' = prev
    /\ lastOp' = "upsert_mr"
    /\ prevOp' = lastOp
    /\ UNCHANGED <<locateVars, resolveVars>>

NextDeps ==
    \/ \E loader \in UpsertLoaders, file_id \in NewFileIds : UpsertCf(loader, file_id)
    \/ \E loader \in UpsertLoaders, version_id \in NewVersionIds : UpsertMr(loader, version_id)

SpecDeps == InitDeps /\ [][NextDeps]_vars

----------------------------------------------------------------------------
(* C2, C8: dependency upsert *)

\* C2: an upsert applied again with the same module id and the same line returns
\* the text the first upsert returned, whether that one inserted or replaced.
UpsertIdempotent ==
    /\ (lastOp = "upsert_cf" /\ depLine.ok)
          => update_or_insert_dependency(text, args.id, depLine.line) = text
    /\ (lastOp = "upsert_mr" /\ depLine.ok)
          => update_or_insert_dependency_mr(text, args.id, depLine.line) = text

\* the file-id tokens of the CurseForge declarations of a module, and the version
\* tokens of its Modrinth declarations
CfIdTokens(s, modid) ==
    {i \in 7..Len(s) : /\ s[i - 6] = "curse.maven" /\ s[i - 5] = ":" /\ s[i - 3] = "-"
                       /\ s[i - 2] = modid /\ s[i - 1] = ":"}

MrIdTokens(s, slug) ==
    {i \in 5..Len(s) : /\ s[i - 4] = "maven.modrinth" /\ s[i - 3] = ":"
                       /\ s[i - 2] = slug /\ s[i - 1] = ":"}

\* C8: when the script declares the module, the upsert changes nothing but the
\* file id (the version) of that declaration, which becomes the one of the new line.
UpsertReplacesOnlyId ==
    /\ (lastOp = "upsert_cf" /\ CfIdTokens(prev, args.id) # {})
          => \E i \in CfIdTokens(prev, args.id) :
                text = [prev EXCEPT ![i] = ToString(args.file_id)]
    /\ (lastOp = "upsert_mr" /\ MrIdTokens(prev, args.id) # {})
          => \E i \in MrIdTokens(prev, args.id) :
                text = [prev EXCEPT ![i] = args.version_id]

\* the script holds a line that declares the module the upsert was for
Declared(s) ==
    IF lastOp = "upsert_cf" THEN FindDeclaration("cf", s, args.id) # None
    ELSE FindDeclaration("mr", s, args.id) # None

\* t is s with part of one line rewritten: no line is added, removed or joined
OneLineRewritten(s, t) ==
    \E a \in 0..Len(s) : \E b \in a..Len(s) :
       /\ ~Contains(Slice(s, a, b), NL)
       /\ Len(t) >= Len(s) - (b - a)
       /\ Take(t, a) = Take(s, a)
       /\ Drop(t, Len(t) - (Len(s) - b)) = Drop(s, b)
       /\ ~Contains(Slice(t, a, Len(t) - (Len(s) - b)), NL)

\* C21: an upsert on a script that declares the module returns a text with as
\* many lines as the script had, all of them unchanged but the one declaration.
UpsertKeepsLineCount ==
    (lastOp \in {"upsert_cf", "upsert_mr"} /\ depLine.ok /\ Declared(prev))
        => /\ CountTok(text, NL, 0, Len(text)) = CountTok(prev, NL, 0, Len(prev))
           /\ OneLineRewritten(prev, text)

\* no coordinate of the module the upsert was for stands anywhere in the script
Undeclared(s) ==
    IF lastOp = "upsert_cf" THEN CfIdTokens(s, args.id) = {}
    ELSE MrIdTokens(s, args.id) = {}

\* a dependencies block that holds the line alone
NewDependenciesBlock(line) ==
    <<DEPENDENCIES, SP, LB, NL>> \o line \o <<NL, RB, NL>>

\* C22: an upsert on a script that does not declare the module puts the new line,
\* ended by a newline, just before the closing brace of the first top-level
\* dependencies block (after one more newline when the block body does not end
\* with one), nested dependencies blocks being passed over; with no top-level
\* dependencies block the text becomes the script, a newline and a new
\* dependencies block that holds the line.
UpsertInsertsIntoTopLevelBlock ==
    (lastOp \in {"upsert_cf", "upsert_mr"} /\ depLine.ok /\ Undeclared(prev))
        => /\ TopLevelOpeners(prev, DEPENDENCIES) = {}
                => text = prev \o <<NL>> \o NewDependenciesBlock(depLine.line)
           /\ TopLevelOpeners(prev, DEPENDENCIES) # {}
                => LET o == Min(TopLevelOpeners(prev, DEPENDENCIES))
                   IN ClosesOf(prev, o) # {}
                         => LET c == Min(ClosesOf(prev, o))
                                nl == IF prev[c - 1] = NL THEN <<>> ELSE <<NL>>
                            IN text = Take(prev, c - 1) \o nl \o depLine.line \o <<NL>>
                                         \o Drop(prev, c - 1)

\* C22 witness: the line went into a closed top-level dependencies block
UpsertInsertsIntoTopLevelBlockWitness ==
    /\ lastOp \in {"upsert_cf", "upsert_mr"} /\ depLine.ok /\ Undeclared(prev)
    /\ TopLevelOpeners(prev, DEPENDENCIES) # {}
    /\ ClosesOf(prev, Min(TopLevelOpeners(prev, DEPENDENCIES))) # {}
    /\ Len(text) = Len(prev) + Len(depLine.line) + 1
    /\ text # prev

----------------------------------------------------------------------------
(* cf.rs, mr.rs, util.rs: the release resolver *)

\* Option<T>: None is the empty sequence, Some(x) the sequence of x alone
Some(x) == <<x>>

\* cf.rs cf_mod_loader_to_tag
cf_mod_loader_to_tag(code) ==
    CASE code = 1 -> "Forge"
      [] code = 6 -> "NeoForge"
      [] code = 4 -> "Fabric"
      [] code = 5 -> "Quilt"
      [] code = 3 -> "LiteLoader"
      [] code = 7 -> "Rift"
      [] OTHER -> "Unknown"

\* the first character of a lower-case name in upper case, the rest as it is
CapitalizeFirst(other) ==
    CASE other = "liteloader" -> "Liteloader"
      [] other = "rift" -> "Rift"
      [] other = "unknown" -> "Unknown"
      [] other = "bogus" -> "Bogus"
      [] OTHER -> other

\* util.rs loader_name_to_tag
loader_name_to_tag(name) ==
    LET l == to_lowercase(name)
    IN CASE l = "forge" -> "Forge"
         [] l = "neoforge" -> "NeoForge"
         [] l = "fabric" -> "Fabric"
         [] l = "quilt" -> "Quilt"
         [] OTHER -> CapitalizeFirst(l)

\* Ok((None, None, None)) and Ok((Some(id), .., Some(tier))); the version label
\* is a function of the candidate returned and is not kept
OkNone == [ok |-> TRUE, value |-> <<None, None>>]
OkFound(id, tier) == [ok |-> TRUE, value |-> <<Some(id), Some(tier)>>]

\* the tag of a listed file: idx.mod_loader.map(cf_mod_loader_to_tag).unwrap_or("Unknown")
CfTag(idx) ==
    IF idx.mod_loader = None THEN "Unknown" ELSE cf_mod_loader_to_tag(idx.mod_loader[1])

\* the inner loop of get_latest_cf_file from position i: the first listed file of
\* the tier that has the version and the tag, 0 when the loop ends without one
RECURSIVE CfScan(_, _, _, _, _)
CfScan(files, i, release_type, mc_version, target_loader) ==
    IF i > Len(files) THEN 0
    ELSE IF /\ files[i].release_type = release_type
            /\ files[i].game_version = mc_version
            /\ CfTag(files[i]) = target_loader
         THEN i
         ELSE CfScan(files, i + 1, release_type, mc_version, target_loader)

\* the outer loop over the tiers [1, 2, 3] from position t
RECURSIVE CfTiers(_, _, _, _)
CfTiers(files, t, mc_version, target_loader) ==
    IF t > 3 THEN OkNone
    ELSE LET i == CfScan(files, 1, t, mc_version, target_loader)
         IN IF i # 0
            THEN OkFound(files[i].file_id, files[i].release_type)
            ELSE CfTiers(files, t + 1, mc_version, target_loader)

\* cf.rs get_latest_cf_file, on the list of the response body
get_latest_cf_file(files, mc_version, loader) ==
    CfTiers(files, 1, mc_version, loader_name_to_tag(loader))

\* Vec::sort_by(|a, b| b.date_published.cmp(&a.date_published)): stable, latest first
RECURSIVE InsertByDate(_, _)
InsertByDate(sorted, v) ==
    IF sorted = <<>> THEN <<v>>
    ELSE IF Head(sorted).date_published >= v.date_published
         THEN <<Head(sorted)>> \o InsertByDate(Tail(sorted), v)
         ELSE <<v>> \o sorted

RECURSIVE SortByDateDesc(_)
SortByDateDesc(versions) ==
    IF versions = <<>> THEN <<>>
    ELSE InsertByDate(SortByDateDesc(Take(versions, Len(versions) - 1)),
                      versions[Len(versions)])

priority_order == <<"release", "beta", "alpha">>

RECURSIVE MrScan(_, _, _, _, _)
MrScan(versions, i, vtype, mc_version, loader_lower) ==
    IF i > Len(versions) THEN 0
    ELSE IF /\ versions[i].version_type = vtype
            /\ \E g \in 1..Len(versions[i].game_versions) :
                  versions[i].game_versions[g] = mc_version
            /\ \E l \in 1..Len(versions[i].loaders) :
                  to_lowercase(versions[i].loaders[l]) = loader_lower
         THEN i
         ELSE MrScan(versions, i + 1, vtype, mc_version, loader_lower)

RECURSIVE MrTiers(_, _, _, _)
MrTiers(versions, t, mc_version, loader_lower) ==
    IF t > Len(priority_order) THEN OkNone
    ELSE LET i == MrScan(versions, 1, priority_order[t], mc_version, loader_lower)
         IN IF i # 0
            THEN OkFound(versions[i].id, versions[i].version_type)
            ELSE MrTiers(versions, t + 1, mc_version, loader_lower)

\* mr.rs get_latest_mr_version, on the list fetch_and_store_versions returned
get_latest_mr_version(versions, mc_version, loader) ==
    MrTiers(SortByDateDesc(versions), 1, mc_version, to_lowercase(loader))

----------------------------------------------------------------------------
(* The resolver asked for the latest release of a listing *)

MaxCands == 2

McVersions == {"1.19", "1.20"}

\* entries of latestFilesIndexes: release type 1 release, 2 beta, 3 alpha; loader
\* code absent, 1 Forge, 3 LiteLoader, 4 Fabric
CfCandidates ==
    [game_version : McVersions, file_id : {100, 101}, release_type : {1, 2, 3},
     mod_loader : {None, Some(1), Some(3), Some(4)}]

\* date_published is an ISO timestamp compared as a string; a number stands for
\* its rank in that order
MrCandidates ==
    [id : {"v1", "v2"}, version_type : {"release", "beta", "alpha"},
     game_versions : {<<"1.19">>, <<"1.19", "1.20">>},
     loaders : {<<"Fabric">>, <<"forge", "fabric">>},
     date_published : {1, 2}]

ResolveLoaders == {"forge", "Fabric", "LiteLoader"}

InitResolve ==
    /\ RestIdle
    /\ text = <<>>
    /\ prev = <<>>
    /\ prev2 = <<>>
    /\ lastOp = "init"
    /\ prevOp = "init"
    /\ UpsertIdle
    /\ LocateIdle
    /\ \/ cfFiles \in SeqsUpTo(CfCandidates, MaxCands) /\ mrVersions = <<>>
       \/ cfFiles = <<>> /\ mrVersions \in SeqsUpTo(MrCandidates, MaxCands)
    /\ query = NoArgs
    /\ result = None

\* the registry answers with the listing
ResolveCf(mc_version, loader) ==
    /\ UNCHANGED restVars
    /\ query' = [op |-> "get_latest_cf_file", mc_version |-> mc_version, loader |-> loader]
    /\ result' = get_latest_cf_file(cfFiles, mc_version, loader)
    /\ lastOp' = "get_latest_cf_file"
    /\ prevOp' = lastOp
    /\ UNCHANGED <<text, prev, prev2, upsertVars, locateVars, cfFiles, mrVersions>>

\* the request fails, the status is not a success or the body does not parse
ResolveCfFails(mc_version, loader) ==
    /\ UNCHANGED restVars
    /\ query' = [op |-> "get_latest_cf_file", mc_version |-> mc_version, loader |-> loader]
    /\ result' = Err(<<"CurseForge">>)
    /\ lastOp' = "get_latest_cf_file"
    /\ prevOp' = lastOp
    /\ UNCHANGED <<text, prev, prev2, upsertVars, locateVars, cfFiles, mrVersions>>

\* fetch_and_store_versions returns the listing
ResolveMr(mc_version, loader) ==
    /\ UNCHANGED restVars
    /\ query' = [op |-> "get_latest_mr_version", mc_version |-> mc_version, loader |-> loader]
    /\ result' = get_latest_mr_version(mrVersions, mc_version, loader)
    /\ lastOp' = "get_latest_mr_version"
    /\ prevOp' = lastOp
    /\ UNCHANGED <<text, prev, prev2, upsertVars, locateVars, cfFiles, mrVersions>>

\* fetch_and_store_versions fails
ResolveMrFails(mc_version, loader) ==
    /\ UNCHANGED restVars
    /\ query' = [op |-> "get_latest_mr_version", mc_version |-> mc_version, loader |-> loader]
    /\ result' = Err(<<"Modrinth">>)
    /\ lastOp' = "get_latest_mr_version"
    /\ prevOp' = lastOp
    /\ UNCHANGED <<text, prev, prev2, upsertVars, locateVars, cfFiles, mrVersions>>

NextResolve ==
    \E mc_version \in {"1.20"}, loader \in ResolveLoaders :
       \/ ResolveCf(mc_version, loader)
       \/ ResolveCfFails(mc_version, loader)
       \/ ResolveMr(mc_version, loader)
       \/ ResolveMrFails(mc_version, loader)

SpecResolve == InitResolve /\ [][NextResolve]_vars

----------------------------------------------------------------------------
(* C9, C10: the resolver's choice *)

SameLoader(a, b) == to_lowercase(a) = to_lowercase(b)

\* the listed candidates that have the requested version and the requested loader
CfMatching ==
    {i \in 1..Len(cfFiles) : /\ cfFiles[i].game_version = query.mc_version
                             /\ SameLoader(CfTag(cfFiles[i]), query.loader)}

MrMatching ==
    {i \in 1..Len(mrVersions) :
        /\ \E g \in 1..Len(mrVersions[i].game_versions) :
              mrVersions[i].game_versions[g] = query.mc_version
        /\ \E l \in 1..Len(mrVersions[i].loaders) :
              SameLoader(mrVersions[i].loaders[l], query.loader)}

TierRank(tier) ==
    CASE tier \in {1, 2, 3} -> tier
      [] tier = "release" -> 1
      [] tier = "beta" -> 2
      [] tier = "alpha" -> 3

AnsweredCf == lastOp = "get_latest_cf_file" /\ result.ok
AnsweredMr == lastOp = "get_latest_mr_version" /\ result.ok

\* C9: when candidates match the request, the resolver returns one of them, of
\* the best tier any matching candidate has (release before beta before alpha),
\* and the tier returned is the same for every order of the listing.
ReleaseTierPriority ==
    /\ (AnsweredCf /\ CfMatching # {})
          => /\ \E i \in CfMatching :
                   result = OkFound(cfFiles[i].file_id, cfFiles[i].release_type)
             /\ \A i \in CfMatching :
                   TierRank(result.value[2][1]) <= TierRank(cfFiles[i].release_type)
             /\ \A p \in Permutations(1..Len(cfFiles)) :
                   get_latest_cf_file([k \in 1..Len(cfFiles) |-> cfFiles[p[k]]],
                                      query.mc_version, query.loader).value[2]
                      = result.value[2]
    /\ (AnsweredMr /\ MrMatching # {})
          => /\ \E i \in MrMatching :
                   result = OkFound(mrVersions[i].id, mrVersions[i].version_type)
             /\ \A i \in MrMatching :
                   TierRank(result.value[2][1]) <= TierRank(mrVersions[i].version_type)
             /\ \A p \in Permutations(1..Len(mrVersions)) :
                   get_latest_mr_version([k \in 1..Len(mrVersions) |-> mrVersions[p[k]]],
                                         query.mc_version, query.loader).value[2]
                      = result.value[2]

\* C23: a candidate the resolver returns is the most recent of the matching
\* candidates of its tier: no such CurseForge candidate has a greater file id,
\* no such Modrinth candidate a later date_published.
WithinTierRecency ==
    /\ (AnsweredCf /\ result.value[1] # None)
          => \A i \in CfMatching :
                cfFiles[i].release_type = result.value[2][1]
                   => cfFiles[i].file_id <= result.value[1][1]
    /\ (AnsweredMr /\ result.value[1] # None)
          => \E i \in MrMatching :
                /\ result = OkFound(mrVersions[i].id, mrVersions[i].version_type)
                /\ \A j \in MrMatching :
                      mrVersions[j].version_type = mrVersions[i].version_type
                         => mrVersions[j].date_published <= mrVersions[i].date_published

\* C10: a candidate is returned only if it has the requested version and the
\* requested loader, and None is returned exactly when no listed candidate has both.
ResolverMatchCondition ==
    /\ AnsweredCf
          => /\ result # OkNone
                   => \E i \in CfMatching :
                         result = OkFound(cfFiles[i].file_id, cfFiles[i].release_type)
             /\ result = OkNone <=> CfMatching = {}
    /\ AnsweredMr
          => /\ result # OkNone
                   => \E i \in MrMatching :
                         result = OkFound(mrVersions[i].id, mrVersions[i].version_type)
             /\ result = OkNone <=> MrMatching = {}

----------------------------------------------------------------------------
(* cf.rs: version extraction.  A text is the sequence of its characters. *)

DigitChars == {"0", "1", "2", "3", "4", "9"}
LetterChars == {"M", "y", "o", "d", "m", "f", "r", "g", "e", "j", "a", "b", "c", "u", "i", "l"}

IsDigitChar(c) == c \in DigitChars

\* [a-zA-Z0-9_.-]
IsSuffixChar(c) == c \in DigitChars \cup LetterChars \cup {"_", ".", "-"}

\* \d+ is greedy: offset after the run of digits that starts after offset e
RECURSIVE DigitRunEnd(_, _)
DigitRunEnd(s, e) ==
    IF e < Len(s) /\ IsDigitChar(s[e + 1]) THEN DigitRunEnd(s, e + 1) ELSE e

\* (?:\.\d+)* is greedy: a dot is taken only with a digit after it
RECURSIVE DottedEnd(_, _)
DottedEnd(s, e) ==
    IF e + 2 <= Len(s) /\ s[e + 1] = "." /\ IsDigitChar(s[e + 2])
    THEN DottedEnd(s, DigitRunEnd(s, e + 1))
    ELSE e

RECURSIVE SuffixRunEnd(_, _)
SuffixRunEnd(s, e) ==
    IF e < Len(s) /\ IsSuffixChar(s[e + 1]) THEN SuffixRunEnd(s, e + 1) ELSE e

\* (?:[-+][a-zA-Z0-9_.-]+)? is greedy: taken whenever it can be
SuffixEnd(s, e) ==
    IF e + 2 <= Len(s) /\ s[e + 1] \in {"-", "+"} /\ IsSuffixChar(s[e + 2])
    THEN SuffixRunEnd(s, e + 1)
    ELSE e

\* VERSION_RE at offset o, where a digit follows: the offset after the match
VersionReMatchEnd(s, o) == SuffixEnd(s, DottedEnd(s, DigitRunEnd(s, o)))

\* captures_iter from offset `from`: the matches do not overlap, each starts at
\* the first digit at or after the end of the one before; the first match that
\* contains a dot is returned
RECURSIVE ExtractFrom(_, _)
ExtractFrom(s, from) ==
    IF from >= Len(s) THEN None
    ELSE IF ~IsDigitChar(s[from + 1]) THEN ExtractFrom(s, from + 1)
    ELSE LET e == VersionReMatchEnd(s, from)
             m == Slice(s, from, e)
         IN IF Contains(m, ".") THEN Some(m) ELSE ExtractFrom(s, e)

extract_version(txt) == ExtractFrom(txt, 0)

----------------------------------------------------------------------------
(* extract_version applied to a file name *)

MaxNameLen == 4

\* the parts of file names of the shape <name>-<a.b.c>-<loader>-<x.y>.jar
NameParts == {<<"M", "y", "M", "o", "d">>, <<"m", "o", "d">>}
VersionParts == {<<"3", ".", "2", ".", "1">>, <<"1", ".", "0", ".", "0">>, <<"1", "4", ".", "2", ".", "9">>}
LoaderParts == {<<"f", "o", "r", "g", "e">>, <<"f", "a", "b", "r", "i", "c">>}
PlatformParts == {<<"1", ".", "2", "0">>, <<"1", ".", "1", "9">>}
JarSuffix == <<".", "j", "a", "r">>

ShapedName(n, v, l, x) == n \o <<"-">> \o v \o <<"-">> \o l \o <<"-">> \o x \o JarSuffix

ShapedNames ==
    {ShapedName(n, v, l, x) : n \in NameParts, v \in VersionParts, l \in LoaderParts,
                              x \in PlatformParts}

\* other names: build-number names, and every short text over a few characters
BuildNames == {<<"M", "y", "M", "o", "d", "-", "b", "u", "i", "l", "d", "4", "2">> \o JarSuffix}
ShortNames == SeqsUpTo({"m", "1", "3", ".", "-", "+", "_", " "}, MaxNameLen)

InitExtract ==
    /\ text = <<>>
    /\ prev = <<>>
    /\ prev2 = <<>>
    /\ lastOp = "init"
    /\ prevOp = "init"
    /\ UpsertIdle
    /\ LocateIdle
    /\ ResolveIdle
    /\ fileText \in ShapedNames \cup BuildNames \cup ShortNames
    /\ version = None
    /\ OrderIdle
    /\ CommandIdle
    /\ NetIdle

Extract ==
    /\ version' = extract_version(fileText)
    /\ lastOp' = "extract_version"
    /\ prevOp' = lastOp
    /\ UNCHANGED <<text, prev, prev2, upsertVars, locateVars, resolveVars, fileText>>
    /\ UNCHANGED <<orderVars, commandVars, netVars>>

NextExtract == Extract

SpecExtract == InitExtract /\ [][NextExtract]_vars

----------------------------------------------------------------------------
(* C11: version extraction *)

\* a dotted numeric token: digits and dots only, a digit first and last, a dot in it
IsDottedNumeric(m) ==
    /\ m # <<>>
    /\ \A i \in 1..Len(m) : m[i] \in DigitChars \cup {"."}
    /\ IsDigitChar(m[1]) /\ IsDigitChar(m[Len(m)])
    /\ \E i \in 1..Len(m) : m[i] = "."

\* C11: for a name of the shape <name>-<a.b.c>-<loader>-<x.y>.jar the result is
\* exactly a.b.c, and whatever is returned is a dotted numeric token with nothing
\* after it.
ExtractReturnsDottedToken ==
    lastOp = "extract_version"
        => /\ \A n \in NameParts, v \in VersionParts, l \in LoaderParts, x \in PlatformParts :
                 fileText = ShapedName(n, v, l, x) => version = Some(v)
           /\ version # None => IsDottedNumeric(version[1])

----------------------------------------------------------------------------
(* mojang.rs: the platform version orderers.  A version string is the      *)
(* sequence of its pieces: <<"1.20">>, <<"1.20", "-rc", "2">>.             *)

U16_MAX == 65535

Range(f) == {f[i] : i \in DOMAIN f}

\* lines 64-69: the map of the manifest's ids to their positions; a later
\* insert of the same id overwrites the earlier one
IndexOf(manifest) ==
    [v \in Range(manifest) |->
        Max({i - 1 : i \in {j \in 1..Len(manifest) : manifest[j] = v /\ j - 1 <= U16_MAX}})]

Readable(map) == [readable |-> TRUE, map |-> map]

\* a lookup that gives an absent version the rank 0
RankOfAbsentFirst(map, s) == IF s \in DOMAIN map THEN map[s] ELSE 0

\* index.get(&s).copied().unwrap_or(u16::MAX)
RankOf(map, s) == IF s \in DOMAIN map THEN map[s] ELSE U16_MAX

\* a.0.cmp(&b.0).then(a.1.cmp(&b.1)).then(a.2.cmp(&b.2)) is Less, on keys of
\* one or of three numbers
RECURSIVE KeyLess(_, _)
KeyLess(a, b) ==
    IF a = <<>> \/ b = <<>> THEN FALSE
    ELSE IF Head(a) # Head(b) THEN Head(a) < Head(b)
    ELSE KeyLess(Tail(a), Tail(b))

\* Vec::sort_by is stable: an item goes after the items that are not greater
RECURSIVE InsertByKey(_, _)
InsertByKey(sorted, it) ==
    IF sorted = <<>> THEN <<it>>
    ELSE IF KeyLess(it[1], Head(sorted)[1])
         THEN <<it>> \o sorted
         ELSE <<Head(sorted)>> \o InsertByKey(Tail(sorted), it)

RECURSIVE SortByKey(_)
SortByKey(items) ==
    IF items = <<>> THEN <<>>
    ELSE InsertByKey(SortByKey(Take(items, Len(items) - 1)), items[Len(items)])

\* the loop with the `seen` set: the first occurrence of every string, in order
RECURSIVE Dedup(_, _)
Dedup(ss, seen) ==
    IF ss = <<>> THEN <<>>
    ELSE IF Head(ss) \in seen THEN Dedup(Tail(ss), seen)
    ELSE <<Head(ss)>> \o Dedup(Tail(ss), seen \cup {Head(ss)})

Strings(items) == [i \in 1..Len(items) |-> items[i][2]]

\* mojang.rs order_mc_versions, on the content of the index file
order_mc_versions(index, input) ==
    IF index.readable
    THEN LET items == [i \in 1..Len(input) |-> <<<<RankOf(index.map, input[i])>>, input[i]>>]
         IN Dedup(Strings(SortByKey(items)), {})
    ELSE Dedup(input, {})

\* s.to_lowercase(), piece by piece
LowerVersion(v) == [i \in 1..Len(v) |-> to_lowercase(v[i])]

\* ^\d+(?:\.\d+)+ : the leading piece when it is a dotted number
DottedPieces == {"1.19", "1.20", "1.21"}
BaseOf(sl) == IF sl # <<>> /\ sl[1] \in DottedPieces THEN Some(<<sl[1]>>) ELSE None

\* (\d+) and parse::<u16>()
NumberPieces == {"1", "2", "3"}
ParseU16(t) ==
    LET n == CASE t = "1" -> 1 [] t = "2" -> 2 [] t = "3" -> 3
    IN IF n <= U16_MAX THEN Some(n) ELSE None

\* -rc(\d+) and -pre(\d+), case-insensitive: the first place the marker is
\* followed by a number, 0 if there is none
MarkerAt(sl, marker) ==
    LET S == {p \in 1..(Len(sl) - 1) : sl[p] = marker /\ sl[p + 1] \in NumberPieces}
    IN IF S = {} THEN 0 ELSE Min(S)

\* a rank that grows with the number of the suffix
SuffixRankAscending(sl, p) ==
    LET n == ParseU16(sl[p + 1])
    IN IF n = None THEN U16_MAX ELSE n[1]

\* rank of lines 124-128 and 131-135
SuffixRank(sl, p) ==
    LET n == ParseU16(sl[p + 1])
    IN IF n = None THEN U16_MAX ELSE U16_MAX - n[1]

\* lines 113-139: (idx, kind, rank) of one input string
CfKey(map, v) ==
    LET sl == LowerVersion(v)
        direct == RankOf(map, v)
        base == BaseOf(sl)
        idx == IF direct = U16_MAX /\ base # None /\ base[1] \in DOMAIN map
               THEN map[base[1]]
               ELSE direct
        rc == MarkerAt(sl, "-rc")
        pre == MarkerAt(sl, "-pre")
    IN IF rc # 0 THEN <<idx, 1, SuffixRank(sl, rc)>>
       ELSE IF pre # 0 THEN <<idx, 2, SuffixRank(sl, pre)>>
       ELSE IF Contains(sl, "snapshot") THEN <<idx, 3, 0>>
       ELSE <<idx, 0, 0>>

\* mojang.rs order_mc_versions_cf, on the content of the index file
order_mc_versions_cf(index, input) ==
    IF index.readable
    THEN LET items == [i \in 1..Len(input) |-> <<CfKey(index.map, input[i]), input[i]>>]
         IN Dedup(Strings(SortByKey(items)), {})
    ELSE input

----------------------------------------------------------------------------
(* The orderers applied to a version list *)

MaxManifest == 2
MaxVersions == 3

ManifestIds == {<<"1.19">>, <<"1.20">>, <<"1.20", "-rc", "1">>}

\* what the index file can hold: nothing readable, or what a refresh wrote
Indexes == {NoIndex} \cup {Readable(IndexOf(m)) : m \in SeqsUpTo(ManifestIds, MaxManifest)}

VersionPool ==
    {<<"1.19">>, <<"1.20">>, <<"1.21">>, <<"1.20", "-rc", "1">>, <<"1.20", "-rc", "2">>,
     <<"1.20", "-pre", "3">>, <<"1.20", "-", "Snapshot">>}

InitOrder ==
    /\ text = <<>>
    /\ prev = <<>>
    /\ prev2 = <<>>
    /\ lastOp = "init"
    /\ prevOp = "init"
    /\ UpsertIdle
    /\ LocateIdle
    /\ ResolveIdle
    /\ ExtractIdle
    /\ mcIndex \in Indexes
    /\ mcInput \in SeqsUpTo(VersionPool, MaxVersions)
    /\ mcOutput = None
    /\ CommandIdle
    /\ NetIdle

OrderMc ==
    /\ mcOutput' = Some(order_mc_versions(mcIndex, mcInput))
    /\ lastOp' = "order_mc_versions"
    /\ prevOp' = lastOp
    /\ UNCHANGED <<text, prev, prev2, upsertVars, locateVars, resolveVars, extractVars,
                   mcIndex, mcInput, commandVars, netVars>>

OrderMcCf ==
    /\ mcOutput' = Some(order_mc_versions_cf(mcIndex, mcInput))
    /\ lastOp' = "order_mc_versions_cf"
    /\ prevOp' = lastOp
    /\ UNCHANGED <<text, prev, prev2, upsertVars, locateVars, resolveVars, extractVars,
                   mcIndex, mcInput, commandVars, netVars>>

NextOrder == OrderMc \/ OrderMcCf

SpecOrder == InitOrder /\ [][NextOrder]_vars

----------------------------------------------------------------------------
(* C12, C13: the order of the versions returned *)

Answered(op) == lastOp = op /\ mcIndex.readable

\* position of the first occurrence of v in the input
FirstPos(v) == Min({i \in 1..Len(mcInput) : mcInput[i] = v})

Known(v) == v \in DOMAIN mcIndex.map

\* v may not stand after w: v has the lower rank, or w alone is absent from the
\* index, or they tie and v came first in the input
RankBefore(v, w) ==
    \/ Known(v) /\ Known(w) /\ mcIndex.map[v] < mcIndex.map[w]
    \/ Known(v) /\ ~Known(w)
    \/ /\ (Known(v) /\ Known(w) /\ mcIndex.map[v] = mcIndex.map[w]) \/ (~Known(v) /\ ~Known(w))
       /\ FirstPos(v) < FirstPos(w)

\* C12: with a readable index, order_mc_versions returns the distinct input
\* versions by ascending index rank, the versions absent from the index last, ties
\* in input order, every duplicate collapsed to its first occurrence.
OrderedByIndexRank ==
    Answered("order_mc_versions")
        => LET out == mcOutput[1]
           IN /\ Range(out) = Range(mcInput)
              /\ Len(out) = Cardinality(Range(mcInput))
              /\ \A i, j \in 1..Len(out) : i < j => RankBefore(out[i], out[j])

\* C12 witness: index {1.19: 0, 1.20: 1} and input [1.20, 1.21, 1.19]
OrderedByIndexRankWitness ==
    /\ Answered("order_mc_versions")
    /\ mcIndex.map = (<<"1.19">> :> 0) @@ (<<"1.20">> :> 1)
    /\ mcInput = <<<<"1.20">>, <<"1.21">>, <<"1.19">>>>
    /\ mcOutput = Some(<<<<"1.19">>, <<"1.20">>, <<"1.21">>>>)

\* the rank a version resolves to: its own, else the one of its dotted prefix
HasBaseRank(v) == Known(v) \/ Known(<<v[1]>>)
BaseRank(v) == IF Known(v) THEN mcIndex.map[v] ELSE mcIndex.map[<<v[1]>>]

\* the suffix of a version and its number
SuffixKind(v) ==
    IF Len(v) = 3 /\ v[2] \in {"-rc", "-RC"} THEN "rc"
    ELSE IF Len(v) = 3 /\ v[2] \in {"-pre", "-PRE"} THEN "pre"
    ELSE IF \E i \in 1..Len(v) : v[i] \in {"snapshot", "Snapshot"} THEN "snapshot"
    ELSE "release"

SuffixNumber(v) == CASE v[3] = "1" -> 1 [] v[3] = "2" -> 2 [] v[3] = "3" -> 3

SameBaseRank(v, w) == HasBaseRank(v) /\ HasBaseRank(w) /\ BaseRank(v) = BaseRank(w)

\* two versions of the same suffix kind that carry a number: the higher number first
HigherNumberFirst(v, w) ==
    (SuffixKind(v) = SuffixKind(w) /\ SuffixKind(v) \in {"rc", "pre"})
        => SuffixNumber(v) >= SuffixNumber(w)

FirstAt(ss, x) == Min({i \in 1..Len(ss) : ss[i] = x})

\* C28: an orderer returns every distinct version of its input exactly once and
\* nothing else, whether or not the index file can be read; when it cannot, the
\* versions come in the order of their first occurrence in the input.
OrderersDeduplicate ==
    (lastOp \in {"order_mc_versions", "order_mc_versions_cf"} /\ mcOutput # None)
        => LET out == mcOutput[1]
           IN /\ {out[i] : i \in 1..Len(out)} = {mcInput[i] : i \in 1..Len(mcInput)}
              /\ \A i, j \in 1..Len(out) : out[i] = out[j] => i = j
              /\ ~mcIndex.readable
                    => \A i, j \in 1..Len(out) :
                          i < j => FirstAt(mcInput, out[i]) < FirstAt(mcInput, out[j])

----------------------------------------------------------------------------
(* operations.rs: the commands that rewrite the build script.  What a     *)
(* command returns is a record: ok, the text on disk after it, the number *)
(* of writes of the file it made, and its per-item report.                *)

\* str::parse::<u32>() succeeds on these strings
IsU32(s) == s \in {"11", "22", "101", "102"}
U32Of(s) == CASE s = "11" -> 11 [] s = "22" -> 22 [] s = "101" -> 101 [] s = "102" -> 102

\* get_project_meta: (slug, id) of the project, as the registry gives them
ProjectMeta(project_id) == IF project_id = "11" THEN <<"jei", "11">> ELSE <<"jade", "22">>

\* an Err return before fs::write, and the Ok return after it
CommandFailed(T) == [ok |-> FALSE, text |-> T, writes |-> 0, out |-> <<>>]
CommandDone(T) == [ok |-> TRUE, text |-> T, writes |-> 1, out |-> <<>>]

\* process_update as it would be if it wrote the file right after ensuring the
\* repository, before composing the line
ProcessUpdateWritesEarly(T, source, project_id, mc_version, loader, reply) ==
    IF to_lowercase(source) = "curseforge"
    THEN IF ~IsU32(project_id) \/ ~reply.ok THEN CommandFailed(T)
         ELSE LET meta == ProjectMeta(project_id)
                  found == get_latest_cf_file(reply.files, mc_version, loader).value[1]
              IN IF found = None THEN CommandFailed(T)
                 ELSE LET g == generate_dep(loader, meta[1], meta[2], found[1])
                      IN IF ~g.ok
                         THEN [ok |-> FALSE, text |-> ensure_curse_maven_repo(T),
                               writes |-> 1, out |-> <<>>]
                         ELSE [ok |-> TRUE,
                               text |-> update_or_insert_dependency(
                                           ensure_curse_maven_repo(T), meta[2], g.line),
                               writes |-> 2, out |-> <<>>]
    ELSE IF to_lowercase(source) = "modrinth"
    THEN IF ~reply.ok THEN CommandFailed(T)
         ELSE LET found == get_latest_mr_version(reply.versions, mc_version, loader).value[1]
              IN IF found = None THEN CommandFailed(T)
                 ELSE LET g == generate_mr_dep(loader, project_id, found[1])
                      IN IF ~g.ok
                         THEN [ok |-> FALSE, text |-> ensure_modrinth_maven_repo(T),
                               writes |-> 1, out |-> <<>>]
                         ELSE [ok |-> TRUE,
                               text |-> update_or_insert_dependency_mr(
                                           ensure_modrinth_maven_repo(T), project_id, g.line),
                               writes |-> 2, out |-> <<>>]
    ELSE CommandFailed(T)

\* operations.rs process_update, on the content T of the file; reply is what the
\* registry answers for the project (ok = FALSE: the request fails)
process_update(T, source, project_id, mc_version, loader, reply) ==
    IF to_lowercase(source) = "curseforge"
    THEN IF ~IsU32(project_id) \/ ~reply.ok THEN CommandFailed(T)
         ELSE LET meta == ProjectMeta(project_id)
                  found == get_latest_cf_file(reply.files, mc_version, loader).value[1]
              IN IF found = None THEN CommandFailed(T)
                 ELSE LET g == generate_dep(loader, meta[1], meta[2], found[1])
                      IN IF ~g.ok THEN CommandFailed(T)
                         ELSE CommandDone(update_or_insert_dependency(
                                             ensure_curse_maven_repo(T), meta[2], g.line))
    ELSE IF to_lowercase(source) = "modrinth"
    THEN IF ~reply.ok THEN CommandFailed(T)
         ELSE LET found == get_latest_mr_version(reply.versions, mc_version, loader).value[1]
              IN IF found = None THEN CommandFailed(T)
                 ELSE LET g == generate_mr_dep(loader, project_id, found[1])
                      IN IF ~g.ok THEN CommandFailed(T)
                         ELSE CommandDone(update_or_insert_dependency_mr(
                                             ensure_modrinth_maven_repo(T), project_id, g.line))
    ELSE CommandFailed(T)

\* operations.rs apply_selected_version
apply_selected_version(T, source, project_id, loader, selected_id, reply) ==
    IF to_lowercase(source) = "curseforge"
    THEN IF ~IsU32(project_id) \/ ~reply.ok \/ ~IsU32(selected_id) THEN CommandFailed(T)
         ELSE LET meta == ProjectMeta(project_id)
                  g == generate_dep(loader, meta[1], meta[2], U32Of(selected_id))
              IN IF ~g.ok THEN CommandFailed(T)
                 ELSE CommandDone(update_or_insert_dependency(
                                     ensure_curse_maven_repo(T), meta[2], g.line))
    ELSE IF to_lowercase(source) = "modrinth"
    THEN LET g == generate_mr_dep(loader, project_id, selected_id)
         IN IF ~g.ok THEN CommandFailed(T)
            ELSE CommandDone(update_or_insert_dependency_mr(
                                ensure_modrinth_maven_repo(T), project_id, g.line))
    ELSE CommandFailed(T)

\* a batch whose items all start from the file as it was before the batch
UpdateItemsFromSnapshot(T, source, items, mc_version, loader) ==
    LET Report(acc, r) == [ok |-> TRUE, text |-> IF r.ok THEN r.text ELSE acc.text,
                           writes |-> acc.writes + r.writes, out |-> Append(acc.out, r.ok)]
        after[k \in 0..Len(items)] ==
            IF k = 0 THEN [ok |-> TRUE, text |-> T, writes |-> 0, out |-> <<>>]
            ELSE Report(after[k - 1],
                        process_update(T, source, items[k].project_id,
                                       mc_version, loader, items[k].reply))
    IN after[Len(items)]

\* the loop of update_dependencies_batch: every item is a process_update on the
\* file as the item before left it; out gets one entry per item, Ok or Err
UpdateItems(T, source, items, mc_version, loader) ==
    LET Report(acc, r) == [ok |-> TRUE, text |-> r.text, writes |-> acc.writes + r.writes,
                           out |-> Append(acc.out, r.ok)]
        after[k \in 0..Len(items)] ==
            IF k = 0 THEN [ok |-> TRUE, text |-> T, writes |-> 0, out |-> <<>>]
            ELSE Report(after[k - 1],
                        process_update(after[k - 1].text, source, items[k].project_id,
                                       mc_version, loader, items[k].reply))
    IN after[Len(items)]

\* operations.rs update_dependencies_batch
update_dependencies_batch(T, source, items, mc_version, loader) ==
    UpdateItems(T, source, items, mc_version, loader)

\* one selection of apply_selected_versions_batch, applied to the text in memory
ApplySelection(content, source, sel, loader) ==
    LET cf == to_lowercase(source) = "curseforge"
        meta == ProjectMeta(sel.project_id)
        bad == cf /\ (~IsU32(sel.project_id) \/ ~IsU32(sel.selected_id) \/ ~sel.reply.ok)
        g == IF cf THEN generate_dep(loader, meta[1], meta[2], U32Of(sel.selected_id))
             ELSE generate_mr_dep(loader, sel.project_id, sel.selected_id)
    IN IF bad THEN [ok |-> FALSE, text |-> content]
       ELSE IF ~g.ok THEN [ok |-> FALSE, text |-> content]
       ELSE [ok |-> TRUE,
             text |-> IF cf THEN update_or_insert_dependency(content, meta[2], g.line)
                      ELSE update_or_insert_dependency_mr(content, sel.project_id, g.line)]

\* the loops of apply_selected_versions_batch: a failing selection returns
\* from the command with `?`, so nothing after it is applied
ApplySelections(content, source, selections, loader) ==
    LET Applied(acc, r) == [ok |-> r.ok, text |-> r.text, writes |-> 1,
                            out |-> IF r.ok THEN Append(acc.out, TRUE) ELSE acc.out]
        Step(acc, sel) == IF ~acc.ok THEN acc
                          ELSE Applied(acc, ApplySelection(acc.text, source, sel, loader))
        after[k \in 0..Len(selections)] ==
            IF k = 0 THEN [ok |-> TRUE, text |-> content, writes |-> 1, out |-> <<>>]
            ELSE Step(after[k - 1], selections[k])
    IN after[Len(selections)]

\* operations.rs apply_selected_versions_batch
apply_selected_versions_batch(T, source, selections, loader) ==
    IF to_lowercase(source) \notin {"curseforge", "modrinth"} THEN CommandFailed(T)
    ELSE LET Written(r) == IF r.ok THEN r ELSE CommandFailed(T)
         IN Written(ApplySelections(IF to_lowercase(source) = "curseforge"
                                    THEN ensure_curse_maven_repo(T)
                                    ELSE ensure_modrinth_maven_repo(T),
                                    source, selections, loader))

\* operations.rs get_batch_mod_briefs: the tasks complete in the order
\* `completion` (a sequence of positions in items); the first Err the stream
\* yields is returned, else the briefs in the order of completion
get_batch_mod_briefs(T, source, items, completion) ==
    IF to_lowercase(source) \notin {"curseforge", "modrinth"} THEN CommandFailed(T)
    ELSE LET failed(it) == \/ to_lowercase(source) = "curseforge" /\ ~IsU32(it.project_id)
                           \/ ~it.reply.ok
         IN IF \E k \in 1..Len(items) : failed(items[k]) THEN CommandFailed(T)
            ELSE [ok |-> TRUE, text |-> T, writes |-> 0,
                  out |-> [k \in 1..Len(items) |-> items[completion[k]].project_id]]

----------------------------------------------------------------------------
(* A command invoked on a build script *)

MaxItems == 2

Sources == {"curseforge", "Modrinth", "ftp"}
CommandLoaders == {"forge", "rift"}

\* what the registries answer for a project: a failed request, or a listing
CfReplies ==
    {[ok |-> FALSE, files |-> <<>>]}
      \cup {[ok |-> TRUE, files |-> f] :
              f \in {<<>>,
                     <<[game_version |-> "1.20", file_id |-> 101, release_type |-> 1,
                        mod_loader |-> Some(1)]>>,
                     <<[game_version |-> "1.20", file_id |-> 102, release_type |-> 2,
                        mod_loader |-> Some(7)]>>}}

MrReplies ==
    {[ok |-> FALSE, versions |-> <<>>]}
      \cup {[ok |-> TRUE, versions |-> v] :
              v \in {<<>>,
                     <<[id |-> "v1", version_type |-> "release", game_versions |-> <<"1.20">>,
                        loaders |-> <<"forge", "rift">>, date_published |-> 1]>>}}

\* the items of get_batch_mod_briefs, with whether the registry answers for each
BriefItemsOf(source) ==
    IF to_lowercase(source) = "modrinth"
    THEN [project_id : {"sodium", "lithium"}, reply : {[ok |-> TRUE], [ok |-> FALSE]}]
    ELSE [project_id : {"11", "22", "abc"}, reply : {[ok |-> TRUE], [ok |-> FALSE]}]

\* the items of a batch, with the registry's answer for each
ItemsOf(source) ==
    IF to_lowercase(source) = "modrinth"
    THEN [project_id : {"sodium", "lithium"}, reply : MrReplies]
    ELSE [project_id : {"11", "22", "abc"}, reply : CfReplies]

SelectionsOf(source) ==
    IF to_lowercase(source) = "modrinth"
    THEN [project_id : {"sodium"}, selected_id : {"v1", "v2"}, reply : {[ok |-> TRUE]}]
    ELSE [project_id : {"11", "abc"}, selected_id : {"101", "x"},
          reply : {[ok |-> TRUE], [ok |-> FALSE]}]

Calls ==
    UNION {
      {[op |-> "process_update", source |-> src, project_id |-> it.project_id,
        mc_version |-> "1.20", loader |-> l, reply |-> it.reply] :
          it \in ItemsOf(src), l \in CommandLoaders}
      \cup
      {[op |-> "apply_selected_version", source |-> src, project_id |-> sel.project_id,
        loader |-> l, selected_id |-> sel.selected_id, reply |-> sel.reply] :
          sel \in SelectionsOf(src), l \in CommandLoaders}
      \cup
      {[op |-> "update_dependencies_batch", source |-> src, items |-> its,
        mc_version |-> "1.20", loader |-> l] :
          its \in SeqsUpTo(ItemsOf(src), MaxItems), l \in CommandLoaders}
      \cup
      {[op |-> "apply_selected_versions_batch", source |-> src, selections |-> sels,
        loader |-> l] :
          sels \in SeqsUpTo(SelectionsOf(src), MaxItems), l \in CommandLoaders}
      \cup
      {[op |-> "get_batch_mod_briefs", source |-> src, items |-> its] :
          its \in SeqsUpTo(BriefItemsOf(src), MaxItems)}
      : src \in Sources }

\* build scripts: empty, with a pinned declaration of project 11, with a plugins block
CommandScripts ==
    { <<>>,
      <<DEPENDENCIES, SP, LB, NL>> \o OldCfLine \o <<NL, RB, NL>>,
      <<PLUGINS, SP, LB, NL, RB, NL>> }

InitCommands ==
    /\ text \in CommandScripts
    /\ prev = text
    /\ prev2 = text
    /\ lastOp = "init"
    /\ prevOp = "init"
    /\ UpsertIdle
    /\ LocateIdle
    /\ ResolveIdle
    /\ ExtractIdle
    /\ OrderIdle
    /\ call \in Calls
    /\ outcome = None
    /\ NetIdle

ProcessUpdate ==
    /\ call.op = "process_update" /\ outcome = None
    /\ outcome' = process_update(text, call.source, call.project_id, call.mc_version,
                   call.loader, call.reply)
    /\ text' = outcome'.text
    /\ prev' = text /\ prev2' = prev /\ lastOp' = call.op /\ prevOp' = lastOp
    /\ UNCHANGED <<upsertVars, locateVars, resolveVars, extractVars, orderVars, call,
                   netVars>>

ApplySelectedVersion ==
    /\ call.op = "apply_selected_version" /\ outcome = None
    /\ outcome' = apply_selected_version(text, call.source, call.project_id, call.loader,
                   call.selected_id, call.reply)
    /\ text' = outcome'.text
    /\ prev' = text /\ prev2' = prev /\ lastOp' = call.op /\ prevOp' = lastOp
    /\ UNCHANGED <<upsertVars, locateVars, resolveVars, extractVars, orderVars, call,
                   netVars>>

UpdateDependenciesBatch ==
    /\ call.op = "update_dependencies_batch" /\ outcome = None
    /\ outcome' = update_dependencies_batch(text, call.source, call.items, call.mc_version,
                   call.loader)
    /\ text' = outcome'.text
    /\ prev' = text /\ prev2' = prev /\ lastOp' = call.op /\ prevOp' = lastOp
    /\ UNCHANGED <<upsertVars, locateVars, resolveVars, extractVars, orderVars, call,
                   netVars>>

ApplySelectedVersionsBatch ==
    /\ call.op = "apply_selected_versions_batch" /\ outcome = None
    /\ outcome' = apply_selected_versions_batch(text, call.source, call.selections, call.loader)
    /\ text' = outcome'.text
    /\ prev' = text /\ prev2' = prev /\ lastOp' = call.op /\ prevOp' = lastOp
    /\ UNCHANGED <<upsertVars, locateVars, resolveVars, extractVars, orderVars, call,
                   netVars>>

\* buffer_unordered(4): a task runs once fewer than 4 tasks before it are unfinished,
\* so the k-th task to complete is one of the first k + 3
GetBatchModBriefs ==
    /\ call.op = "get_batch_mod_briefs" /\ outcome = None
    /\ \E completion \in Permutations(1..Len(call.items)) :
          /\ \A k \in 1..Len(call.items) : completion[k] <= k + 3
          /\ outcome' = get_batch_mod_briefs(text, call.source, call.items, completion)
    /\ text' = text
    /\ prev' = text /\ prev2' = prev /\ lastOp' = call.op /\ prevOp' = lastOp
    /\ UNCHANGED <<upsertVars, locateVars, resolveVars, extractVars, orderVars, call,
                   netVars>>

NextCommands ==
    \/ ProcessUpdate
    \/ ApplySelectedVersion

SpecCommands == InitCommands /\ [][NextCommands]_vars

NextBatch ==
    \/ UpdateDependenciesBatch
    \/ ApplySelectedVersionsBatch
    \/ GetBatchModBriefs

SpecBatch == InitCommands /\ [][NextBatch]_vars

----------------------------------------------------------------------------
(* Claims about the commands *)

BatchOps == {"update_dependencies_batch", "apply_selected_versions_batch",
             "get_batch_mod_briefs"}

\* the command of the call has returned
Returned(op) == lastOp = op /\ outcome # None

\* a selection that apply_selected_versions_batch can apply on its own
SelectionApplies(source, sel, loader) ==
    ApplySelection(<<>>, source, sel, loader).ok

\* an item whose brief get_batch_mod_briefs can fetch on its own
BriefFetched(source, it) ==
    /\ it.reply.ok
    /\ to_lowercase(source) = "curseforge" => IsU32(it.project_id)

\* C14: a batch command on a known registry reports every item and drops none
\* that succeeds on its own: update_dependencies_batch returns one entry per
\* item, apply_selected_versions_batch applies and reports every selection that
\* can be applied and writes the file, get_batch_mod_briefs returns the brief
\* of every item whose brief can be fetched.
BatchIsolatesFailures ==
    (lastOp \in BatchOps /\ outcome # None
       /\ to_lowercase(call.source) \in {"curseforge", "modrinth"})
        => CASE lastOp = "update_dependencies_batch" ->
                   /\ outcome.ok
                   /\ Len(outcome.out) = Len(call.items)
             [] lastOp = "apply_selected_versions_batch" ->
                   LET good == {k \in 1..Len(call.selections) :
                                   SelectionApplies(call.source, call.selections[k],
                                                    call.loader)}
                   IN /\ Cardinality(good) <= Len(outcome.out)
                      /\ good # {} => outcome.writes = 1
             [] lastOp = "get_batch_mod_briefs" ->
                   \A k \in 1..Len(call.items) :
                      BriefFetched(call.source, call.items[k])
                         => \E j \in 1..Len(outcome.out) :
                               outcome.out[j] = call.items[k].project_id

\* C25: when every item of get_batch_mod_briefs succeeds, the list returned is
\* the one returned when the fetches complete in the order of the items,
\* whatever order they completed in.
BriefsIndependentOfCompletion ==
    (Returned("get_batch_mod_briefs") /\ outcome.ok)
        => outcome.out
             = get_batch_mod_briefs(text, call.source, call.items,
                                    [k \in 1..Len(call.items) |-> k]).out

\* the coordinate process_update declares for an item of a batch
ItemCoordinate(source, it, mc_version, loader) ==
    IF to_lowercase(source) = "curseforge"
    THEN <<CURSE_GROUP, COLON, ProjectMeta(it.project_id)[1], DASH,
           ProjectMeta(it.project_id)[2], COLON,
           ToString(get_latest_cf_file(it.reply.files, mc_version, loader).value[1][1])>>
    ELSE <<MODRINTH_GROUP, COLON, it.project_id, COLON,
           get_latest_mr_version(it.reply.versions, mc_version, loader).value[1][1]>>

HoldsCoordinate(s, coord) == \E p \in 0..Len(s) : StanzaAt(s, p, coord)

\* C27: after update_dependencies_batch the file holds the declaration of every
\* item the batch reports as updated, also of those followed by the updates of
\* other items.
BatchUpdatesNotLost ==
    Returned("update_dependencies_batch")
        => \A k \in 1..Len(outcome.out) :
              outcome.out[k]
                 => HoldsCoordinate(text, ItemCoordinate(call.source, call.items[k],
                                                         call.mc_version, call.loader))

\* C27 witness: two items for different projects, both updated
BatchUpdatesNotLostWitness ==
    /\ Returned("update_dependencies_batch")
    /\ Len(outcome.out) = 2
    /\ outcome.out[1] /\ outcome.out[2]
    /\ call.items[1].project_id # call.items[2].project_id
    /\ outcome.writes = 2

SingleOps == {"process_update", "apply_selected_version"}

\* C15: process_update and apply_selected_version that fail leave the file as
\* it was and write nothing; when they succeed the file is written once, and
\* what is written has the registry's repository declared and the dependency
\* in a dependencies block.
NoPartialMutation ==
    (lastOp \in SingleOps /\ outcome # None)
        => /\ ~outcome.ok => (text = prev /\ outcome.writes = 0)
           /\ outcome.ok =>
                /\ outcome.writes = 1
                /\ Contains(text, DEPENDENCIES)
                /\ IF to_lowercase(call.source) = "curseforge"
                   THEN HasCurseMarker(text) /\ Contains(text, CURSE_GROUP)
                   ELSE HasModrinthMarker(text) /\ Contains(text, MODRINTH_GROUP)

\* C15 witness: a Modrinth update that finds a version and then fails to compose
\* the line for the loader, on a script that has no Modrinth repository yet
NoPartialMutationWitness ==
    /\ Returned("process_update") /\ ~outcome.ok
    /\ to_lowercase(call.source) = "modrinth"
    /\ call.reply.ok /\ call.reply.versions # <<>>
    /\ ~HasModrinthMarker(prev)
    /\ text = prev

----------------------------------------------------------------------------
(* mojang.rs: the manifest refresh, and the orderers that read what it wrote *)

\* what the GET of the manifest can come to: the request fails, the body cannot
\* be read, or a status arrives with a body that parses as a manifest or not
Manifests == {<<<<"1.20">>>>, <<<<"1.20">>, <<"1.19">>>>}

RefreshReplies ==
    {[sent |-> FALSE], [sent |-> TRUE, read |-> FALSE]}
      \cup [sent : {TRUE}, read : {TRUE}, status : {200, 404, 500},
            body : {[parses |-> FALSE]} \cup {[parses |-> TRUE, versions |-> m] : m \in Manifests}]

\* StatusCode::is_success
IsSuccess(status) == 200 <= status /\ status <= 299

\* a refresh that empties the index file before it sends the request
RefreshTruncatesFirst(index, reply) ==
    IF ~reply.sent THEN [result |-> "transport", index |-> Readable(<<>>)]
    ELSE IF ~reply.read THEN [result |-> "transport", index |-> Readable(<<>>)]
    ELSE IF ~IsSuccess(reply.status) THEN [result |-> "status", index |-> Readable(<<>>)]
    ELSE IF ~reply.body.parses THEN [result |-> "parse", index |-> Readable(<<>>)]
    ELSE [result |-> "ok", index |-> Readable(IndexOf(reply.body.versions))]

\* mojang.rs refresh_manifest_cache_on_startup on the index file `index`: its
\* result and the index file after it
refresh_manifest_cache_on_startup(index, reply) ==
    IF ~reply.sent THEN [result |-> "transport", index |-> index]
    ELSE IF ~reply.read THEN [result |-> "transport", index |-> index]
    ELSE IF ~IsSuccess(reply.status) THEN [result |-> "status", index |-> index]
    ELSE IF ~reply.body.parses THEN [result |-> "parse", index |-> index]
    ELSE [result |-> "ok", index |-> Readable(IndexOf(reply.body.versions))]

MaxFetches == 2

RefreshInputs ==
    {<<<<"1.19">>, <<"1.20">>>>,
     <<<<"1.21">>, <<"1.20", "-rc", "1">>, <<"1.20">>>>}

InitRefresh ==
    /\ text = <<>>
    /\ prev = <<>>
    /\ prev2 = <<>>
    /\ lastOp = "init"
    /\ prevOp = "init"
    /\ UpsertIdle
    /\ LocateIdle
    /\ ResolveIdle
    /\ ExtractIdle
    /\ mcIndex \in Indexes
    /\ mcInput \in RefreshInputs
    /\ mcOutput = None
    /\ CommandIdle
    /\ refresh = [fetches |-> 0, result |-> "none", before |-> mcIndex]
    /\ retry = None
    /\ FetchIdle

\* refresh_mojang_cache: one GET, whatever comes of it
RefreshMojangCache ==
    /\ refresh.fetches < MaxFetches
    /\ \E reply \in RefreshReplies :
          LET r == refresh_manifest_cache_on_startup(mcIndex, reply)
          IN /\ mcIndex' = r.index
             /\ refresh' = [fetches |-> refresh.fetches + 1, result |-> r.result,
                            before |-> mcIndex]
    /\ lastOp' = "refresh_mojang_cache"
    /\ prevOp' = lastOp
    /\ UNCHANGED <<text, prev, prev2, upsertVars, locateVars, resolveVars, extractVars,
                   mcInput, mcOutput, commandVars, retry, fetchVars>>

NextRefresh ==
    \/ RefreshMojangCache
    \/ OrderMc
    \/ OrderMcCf

SpecRefresh == InitRefresh /\ [][NextRefresh]_vars

RefreshFailures == {"transport", "status", "parse"}

\* C16: after a refresh that failed the index file is what it was before it,
\* an orderer called then returns what it returns on that index, and a call
\* of an orderer sends no request.
FailedRefreshKeepsIndex ==
    /\ [](refresh.result \in RefreshFailures
            => /\ mcIndex = refresh.before
               /\ lastOp = "order_mc_versions"
                    => mcOutput = Some(order_mc_versions(refresh.before, mcInput))
               /\ lastOp = "order_mc_versions_cf"
                    => mcOutput = Some(order_mc_versions_cf(refresh.before, mcInput)))
    /\ [][lastOp' \in {"order_mc_versions", "order_mc_versions_cf"}
            => refresh'.fetches = refresh.fetches]_vars

\* C16 witness: an index that knows versions, a refresh answered with status
\* 500, then an orderer that still sorts by that index
FailedRefreshKeepsIndexWitness ==
    /\ refresh.result = "status"
    /\ prevOp = "refresh_mojang_cache"
    /\ lastOp = "order_mc_versions"
    /\ mcIndex.readable /\ DOMAIN mcIndex.map # {}
    /\ mcOutput # Some(mcInput)

----------------------------------------------------------------------------
(* util.rs send_with_retry *)

MaxRetries == 3

\* what one send can come to: a transport error, or a response with a status
SendOutcomes == {[sent |-> FALSE]} \cup [sent : {TRUE}, status : {200, 404, 500}]

\* send_with_retry that also retries a response whose status is not a success
SendWithRetryOnStatus(clonable, retries, net) ==
    LET run[attempt \in 0..retries] ==
            LET earlier == IF attempt = 0
                           THEN [done |-> FALSE, attempts |-> 0, waits |-> <<>>]
                           ELSE run[attempt - 1]
            IN IF earlier.done THEN earlier
               ELSE IF ~clonable
               THEN [done |-> TRUE, ok |-> FALSE, error |-> "cannot clone request",
                     attempts |-> earlier.attempts, waits |-> earlier.waits]
               ELSE IF net[attempt].sent /\ IsSuccess(net[attempt].status)
               THEN [done |-> TRUE, ok |-> TRUE, response |-> net[attempt],
                     from |-> attempt,
                     attempts |-> earlier.attempts + 1, waits |-> earlier.waits]
               ELSE IF attempt < retries
               THEN [done |-> FALSE, attempts |-> earlier.attempts + 1,
                     waits |-> Append(earlier.waits, 200 * 2 ^ attempt)]
               ELSE [done |-> TRUE, ok |-> FALSE, error |-> attempt,
                     attempts |-> earlier.attempts + 1, waits |-> earlier.waits]
    IN run[retries]

\* util.rs send_with_retry(rb, retries), where net[k] is what the k-th send
\* comes to: what it returns (the response, or the error of the send numbered
\* `error`), the sends it made and the sleeps it took, in milliseconds
send_with_retry(clonable, retries, net) ==
    LET run[attempt \in 0..retries] ==
            LET earlier == IF attempt = 0
                           THEN [done |-> FALSE, attempts |-> 0, waits |-> <<>>]
                           ELSE run[attempt - 1]
            IN IF earlier.done THEN earlier
               ELSE IF ~clonable
               THEN [done |-> TRUE, ok |-> FALSE, error |-> "cannot clone request",
                     attempts |-> earlier.attempts, waits |-> earlier.waits]
               ELSE IF net[attempt].sent
               THEN [done |-> TRUE, ok |-> TRUE, response |-> net[attempt],
                     from |-> attempt,
                     attempts |-> earlier.attempts + 1, waits |-> earlier.waits]
               ELSE IF attempt < retries
               THEN [done |-> FALSE, attempts |-> earlier.attempts + 1,
                     waits |-> Append(earlier.waits, 200 * 2 ^ attempt)]
               ELSE [done |-> TRUE, ok |-> FALSE, error |-> attempt,
                     attempts |-> earlier.attempts + 1, waits |-> earlier.waits]
    IN run[retries]

InitRetry ==
    /\ text = <<>>
    /\ prev = <<>>
    /\ prev2 = <<>>
    /\ lastOp = "init"
    /\ prevOp = "init"
    /\ UpsertIdle
    /\ LocateIdle
    /\ ResolveIdle
    /\ ExtractIdle
    /\ OrderIdle
    /\ CommandIdle
    /\ refresh = None
    /\ FetchIdle
    /\ \E n \in 0..MaxRetries, c \in BOOLEAN :
          \E net \in [0..n -> SendOutcomes] :
             retry = [clonable |-> c, retries |-> n, net |-> net, returned |-> None]

SendWithRetry ==
    /\ retry.returned = None
    /\ retry' = [retry EXCEPT
                   !.returned = Some(send_with_retry(retry.clonable, retry.retries, retry.net))]
    /\ lastOp' = "send_with_retry"
    /\ prevOp' = lastOp
    /\ UNCHANGED <<text, prev, prev2, upsertVars, locateVars, resolveVars, extractVars,
                   orderVars, commandVars, refresh, fetchVars>>

NextRetry == SendWithRetry

SpecRetry == InitRetry /\ [][NextRetry]_vars

\* the sends before the k-th that came to a transport error
FailedBefore(k) == \A j \in 0..(k - 1) : ~retry.net[j].sent

\* C17: a call on a request that can be cloned makes at most retries + 1 sends;
\* it returns the response of the first send that gets one, whatever its
\* status, having made no send after it; it sleeps 200 * 2^k ms after the k-th
\* failed send except the last; after retries + 1 failed sends it returns the
\* error of the last.
BoundedRetryOnTransportFailure ==
    (retry # None /\ retry.returned # None /\ retry.clonable)
        => LET r == retry.returned[1]
               n == retry.retries
               answering == {k \in 0..n : retry.net[k].sent}
           IN /\ r.attempts <= n + 1
              /\ answering # {}
                   => /\ r.ok /\ r.response = retry.net[Min(answering)]
                      /\ r.attempts = Min(answering) + 1
                      /\ r.waits = [k \in 1..Min(answering) |-> 200 * 2 ^ (k - 1)]
              /\ answering = {}
                   => /\ ~r.ok /\ r.error = n
                      /\ r.attempts = n + 1
                      /\ r.waits = [k \in 1..n |-> 200 * 2 ^ (k - 1)]

\* C17 witness: two transport errors, then a 500 response, with retries = 3
BoundedRetryWitness ==
    /\ retry # None /\ retry.returned # None /\ retry.clonable
    /\ retry.retries = 3
    /\ ~retry.net[0].sent /\ ~retry.net[1].sent
    /\ retry.net[2].sent /\ retry.net[2].status = 500
    /\ retry.returned[1].waits = <<200, 400>>

----------------------------------------------------------------------------
(* cache.rs, cf.rs, mr.rs: cached and paginated candidate lists *)

TTL_MS == 6 * 60 * 60 * 1000
page_size == 50
MAX_FILES == 500

\* cache.rs safe_key_segment, on the names used here: every character that is
\* not an ASCII letter or digit, "-", "_" or "." becomes "_"; an empty name
\* becomes "_"
safe_key_segment(s) ==
    CASE s = "1.20 x" -> "1.20_x"
      [] s = "" -> "_"
      [] OTHER -> s

\* format!("cf-files-{}-{}-{}.bin", project_id, v, loader_code)
cf_cache_name(project_id, mc_version, loader_code) ==
    <<"cf-files", ToString(project_id), safe_key_segment(mc_version), ToString(loader_code)>>

\* format!("mr-versions-{}.bin", key)
mr_cache_name(project_slug) == <<"mr-versions", safe_key_segment(project_slug)>>

\* cache.rs read_bincode: the decoded file, None when there is no such file
read_bincode(dir, name) == IF name \in DOMAIN dir THEN Some(dir[name]) ELSE None

\* cache.rs write_bincode
write_bincode(dir, name, value) ==
    [n \in DOMAIN dir \cup {name} |-> IF n = name THEN value ELSE dir[n]]

\* now_millis().saturating_sub(cache.fetched_at)
Age(now, fetched_at) == IF now >= fetched_at THEN now - fetched_at ELSE 0

\* A file list is kept as the sizes of the pages it was read in.
RECURSIVE FileCount(_)
FileCount(all) == IF all = <<>> THEN 0 ELSE Head(all) + FileCount(Tail(all))

\* What the registry answers to the request for the page at an index: the first
\* server.full pages hold server.sizes items, taken in turn, and every page after
\* them is server.then, a last page or a failure.
PageOf(server, index) ==
    IF index < server.full
    THEN [ok |-> TRUE, count |-> server.sizes[(index % Len(server.sizes)) + 1]]
    ELSE server.then

\* a loop that goes on while exactly MAX_FILES items have been read
RECURSIVE FetchPagesPastCap(_, _, _)
FetchPagesPastCap(server, index, all) ==
    LET page == PageOf(server, index)
    IN IF ~page.ok
       THEN [ok |-> FALSE, err |-> page.err, requests |-> index + 1]
       ELSE LET grown == Append(all, page.count)
            IN IF page.count < page_size \/ FileCount(grown) > MAX_FILES
               THEN [ok |-> TRUE, files |-> grown, requests |-> index + 1]
               ELSE FetchPagesPastCap(server, index + 1, grown)

\* cf.rs lines 357-402, the loop: a transport failure left after the retries, a
\* status that is not a success and a body that does not parse all return Err
RECURSIVE FetchPages(_, _, _)
FetchPages(server, index, all) ==
    LET page == PageOf(server, index)
    IN IF ~page.ok
       THEN [ok |-> FALSE, err |-> page.err, requests |-> index + 1]
       ELSE LET grown == Append(all, page.count)
            IN IF page.count < page_size \/ FileCount(grown) >= MAX_FILES
               THEN [ok |-> TRUE, files |-> grown, requests |-> index + 1]
               ELSE FetchPages(server, index + 1, grown)

\* cf.rs lines 334-411.  now is the clock when the cache is read, later the clock
\* when the list is stored.  An entry also records the arguments it was stored
\* for, which the file does not hold.
get_cf_files_filtered(dir, now, later, project_id, mc_version, loader_code, use_cache, server) ==
    LET name == cf_cache_name(project_id, mc_version, loader_code)
        cached == read_bincode(dir, name)
    IN IF use_cache /\ cached # None /\ Age(now, cached[1].fetched_at) <= TTL_MS
       THEN [ok |-> TRUE, files |-> cached[1].files, requests |-> 0, dir |-> dir]
       ELSE LET got == FetchPages(server, 0, <<>>)
            IN IF ~got.ok
               THEN [ok |-> FALSE, err |-> got.err, requests |-> got.requests, dir |-> dir]
               ELSE [ok |-> TRUE, files |-> got.files, requests |-> got.requests,
                     dir |-> IF use_cache
                             THEN write_bincode(dir, name,
                                     [files |-> got.files, fetched_at |-> later,
                                      stored_for |-> <<"cf", project_id, mc_version,
                                                       loader_code>>])
                             ELSE dir]

----------------------------------------------------------------------------
(* The paginated fetch against registries of every shape *)

MaxFullPages == 10
MaxPattern == 2

FullSizes == {50, 60}
PageFailures == {"transport", "status", "parse"}
LastPages ==
    {[ok |-> TRUE, count |-> c] : c \in {0, 49, 50}}
       \cup {[ok |-> FALSE, err |-> e] : e \in PageFailures}

Servers ==
    [full : 0..MaxFullPages, sizes : SeqsUpTo(FullSizes, MaxPattern) \ {<<>>},
     then : LastPages]

FetchProjects == {11}
FetchVersions == {"1.20", "1.20 x", "1.20_x"}
FetchLoaderCodes == {1, 4}

InitFetch ==
    /\ text = <<>>
    /\ prev = <<>>
    /\ prev2 = <<>>
    /\ lastOp = "init"
    /\ prevOp = "init"
    /\ UpsertIdle
    /\ LocateIdle
    /\ ResolveIdle
    /\ ExtractIdle
    /\ OrderIdle
    /\ CommandIdle
    /\ refresh = None
    /\ retry = None
    /\ FetchIdle

\* one call of get_cf_files_filtered on an empty cache directory
GetCfFiles ==
    /\ fetch = None
    /\ \E project_id \in FetchProjects, loader_code \in FetchLoaderCodes,
          use_cache \in BOOLEAN, server \in Servers :
          LET r == get_cf_files_filtered(cache, clock, clock, project_id, "1.20",
                                         loader_code, use_cache, server)
          IN /\ cache' = r.dir
             /\ fetch' = [op |-> "get_cf_files_filtered", use_cache |-> use_cache,
                          server |-> server, returned |-> r, before |-> cache]
    /\ lastOp' = "get_cf_files_filtered"
    /\ prevOp' = lastOp
    /\ UNCHANGED <<text, prev, prev2, upsertVars, locateVars, resolveVars, extractVars,
                   orderVars, commandVars, refresh, retry, clock>>

NextFetch == GetCfFiles

SpecFetch == InitFetch /\ [][NextFetch]_vars

----------------------------------------------------------------------------
(* C24: the paginated fetch stops *)

\* the pages the call asked for, in order
Asked(k) == PageOf(fetch.server, k - 1)

\* C24: a call that goes to the registry asks for at most 10 pages.  When every
\* page it asked for came back, it returns those pages and no others, the last
\* being the first that holds fewer than 50 items or brings the total to 500 or
\* more, and the total is at most 500 when no page holds more than 50 items.
\* When a page failed, the call returns an error and no page, and stores none.
PaginatedFetchStops ==
    (fetch # None /\ fetch.returned.requests > 0)
        => LET r == fetch.returned
               n == r.requests
           IN /\ n <= 10
              /\ \A k \in 1..(n - 1) : Asked(k).ok
              /\ Asked(n).ok
                    => /\ r.ok
                       /\ r.files = [k \in 1..n |-> Asked(k).count]
                       /\ \A k \in 1..(n - 1) :
                             /\ Asked(k).count >= 50
                             /\ FileCount(SubSeq(r.files, 1, k)) < 500
                       /\ Asked(n).count < 50 \/ FileCount(r.files) >= 500
                       /\ (\A k \in 1..n : Asked(k).count <= 50)
                             => FileCount(r.files) <= 500
              /\ ~Asked(n).ok
                    => /\ ~r.ok
                       /\ "files" \notin DOMAIN r
                       /\ cache = fetch.before

\* C24 witness: ten full pages were read and the cap ended the call
PaginatedFetchStopsWitness ==
    /\ fetch # None
    /\ fetch.returned.ok
    /\ fetch.returned.requests = 10
    /\ FileCount(fetch.returned.files) = 500
    /\ fetch.server.then = [ok |-> TRUE, count |-> 50]

----------------------------------------------------------------------------
(* mr.rs: the cached version list of a Modrinth project *)

\* the versions of a list that name the platform version and the loader
\* (lines 184-193; the registry does the same for the filtered request)
FilterVersions(versions, mc_version, loader) ==
    SelectSeq(versions,
              LAMBDA v : /\ \E i \in 1..Len(v.game_versions) : v.game_versions[i] = mc_version
                         /\ \E i \in 1..Len(v.loaders) :
                               to_lowercase(v.loaders[i]) = to_lowercase(loader))

\* mr.rs lines 114-126, the reply being what fetch_versions (lines 78-112) got
fetch_and_store_versions(dir, later, project_slug, reply) ==
    IF ~reply.ok
    THEN [ok |-> FALSE, err |-> reply.err, requests |-> 1, dir |-> dir, spawned |-> None]
    ELSE [ok |-> TRUE, versions |-> reply.versions, requests |-> 1,
          dir |-> write_bincode(dir, mr_cache_name(project_slug),
                                [versions |-> reply.versions, fetched_at |-> later,
                                 stored_for |-> <<"mr", project_slug>>]),
          spawned |-> None]

\* mr.rs lines 160-175; spawned is the project whose list the detached task
\* fetches again
get_versions(dir, now, later, project_slug, use_cache, reply) ==
    LET cached == read_bincode(dir, mr_cache_name(project_slug))
    IN IF use_cache /\ cached # None
       THEN [ok |-> TRUE, versions |-> cached[1].versions, requests |-> 0, dir |-> dir,
             spawned |-> IF Age(now, cached[1].fetched_at) > TTL_MS
                         THEN Some(project_slug) ELSE None]
       ELSE fetch_and_store_versions(dir, later, project_slug, reply)

\* mr.rs lines 177-202
get_versions_filtered(dir, now, later, project_slug, mc_version, loader, use_cache, reply) ==
    IF use_cache
    THEN LET all == get_versions(dir, now, later, project_slug, TRUE, reply)
         IN IF ~all.ok THEN all
            ELSE [all EXCEPT !.versions = FilterVersions(@, mc_version, loader)]
    ELSE IF ~reply.ok
         THEN [ok |-> FALSE, err |-> reply.err, requests |-> 1, dir |-> dir,
               spawned |-> None]
         ELSE [ok |-> TRUE, versions |-> FilterVersions(reply.versions, mc_version, loader),
               requests |-> 1, dir |-> dir, spawned |-> None]

----------------------------------------------------------------------------
(* Calls on the cache directory as time passes *)

MaxCalls == 2

\* the clock, in milliseconds since the first call
ClockTimes == {0, TTL_MS, TTL_MS + 1}

\* registries that answer with one short page, or fail
CacheServers ==
    {[full |-> 0, sizes |-> <<page_size>>, then |-> t] :
        t \in {[ok |-> TRUE, count |-> 1], [ok |-> TRUE, count |-> 2],
               [ok |-> FALSE, err |-> "status"]}}

CacheVersions == {"1.20 x", "1.20_x"}
CacheSlugs == {"sodium"}
CacheLoaders == {"fabric", "Forge"}

OldVersion ==
    [id |-> "v1", game_versions |-> <<"1.20_x">>, loaders |-> <<"fabric", "forge">>]
NewVersion ==
    [id |-> "v2", game_versions |-> <<"1.20_x", "1.20 x">>, loaders |-> <<"fabric">>]

MrFetchReplies ==
    {[ok |-> FALSE, err |-> "status"]}
       \cup {[ok |-> TRUE, versions |-> v] : v \in {<<OldVersion>>, <<NewVersion, OldVersion>>}}

CallsMade == IF fetch = None THEN 0 ELSE fetch.calls

CacheFrame ==
    UNCHANGED <<text, prev, prev2, upsertVars, locateVars, resolveVars, extractVars,
                orderVars, commandVars, refresh, retry>>

\* get_cf_files_filtered, the list being stored at some time not before the call
GetCfFilesCached ==
    /\ CallsMade < MaxCalls
    /\ \E project_id \in FetchProjects, mc_version \in CacheVersions,
          loader_code \in FetchLoaderCodes, use_cache \in BOOLEAN,
          server \in CacheServers, later \in {t \in ClockTimes : t >= clock} :
          LET r == get_cf_files_filtered(cache, clock, later, project_id, mc_version,
                                         loader_code, use_cache, server)
          IN /\ cache' = r.dir
             /\ clock' = IF r.requests = 0 THEN clock ELSE later
             /\ fetch' = [op |-> "get_cf_files_filtered", use_cache |-> use_cache,
                          key |-> <<"cf", project_id, mc_version, loader_code>>,
                          server |-> server, now |-> clock, returned |-> r,
                          before |-> cache, calls |-> CallsMade + 1,
                          pending |-> IF fetch = None THEN None ELSE fetch.pending]
    /\ lastOp' = "get_cf_files_filtered"
    /\ prevOp' = lastOp
    /\ CacheFrame

\* get_versions_filtered, likewise
GetVersionsFiltered ==
    /\ CallsMade < MaxCalls
    /\ \E project_slug \in CacheSlugs, mc_version \in CacheVersions,
          loader \in CacheLoaders, use_cache \in BOOLEAN, reply \in MrFetchReplies,
          later \in {t \in ClockTimes : t >= clock} :
          LET r == get_versions_filtered(cache, clock, later, project_slug, mc_version,
                                         loader, use_cache, reply)
          IN /\ cache' = r.dir
             /\ clock' = IF r.requests = 0 THEN clock ELSE later
             /\ fetch' = [op |-> "get_versions_filtered", use_cache |-> use_cache,
                          key |-> <<"mr", project_slug, mc_version, loader>>,
                          server |-> reply, now |-> clock, returned |-> r,
                          before |-> cache, calls |-> CallsMade + 1,
                          pending |-> IF r.spawned # None THEN r.spawned
                                      ELSE IF fetch = None THEN None ELSE fetch.pending]
    /\ lastOp' = "get_versions_filtered"
    /\ prevOp' = lastOp
    /\ CacheFrame

\* the task get_versions spawned: fetch_and_store_versions on its own
BackgroundRefresh ==
    /\ fetch # None /\ fetch.pending # None
    /\ \E reply \in MrFetchReplies :
          /\ cache' = fetch_and_store_versions(cache, clock, fetch.pending[1], reply).dir
          /\ fetch' = [fetch EXCEPT !.pending = None]
    /\ UNCHANGED <<clock, lastOp, prevOp>>
    /\ CacheFrame

\* time passes between calls
Tick ==
    /\ \E t \in ClockTimes : t > clock /\ clock' = t
    /\ UNCHANGED <<cache, fetch, lastOp, prevOp>>
    /\ CacheFrame

NextCache ==
    \/ GetCfFilesCached
    \/ GetVersionsFiltered
    \/ BackgroundRefresh
    \/ Tick

SpecCache == InitFetch /\ [][NextCache]_vars

----------------------------------------------------------------------------
(* C26: what a cached list is returned for *)

\* the list the call returned is the one the entry holds
ReturnedFrom(entry) ==
    IF fetch.op = "get_cf_files_filtered"
    THEN "files" \in DOMAIN entry /\ fetch.returned.files = entry.files
    ELSE /\ "versions" \in DOMAIN entry
         /\ fetch.returned.versions
               = FilterVersions(entry.versions, fetch.key[3], fetch.key[4])

\* the entry was stored for the arguments of the call: registry, project,
\* platform version and loader for CurseForge; registry and project for
\* Modrinth, whose entries hold the versions of every platform version and loader
StoredForCall(entry) ==
    IF fetch.op = "get_cf_files_filtered"
    THEN entry.stored_for = fetch.key
    ELSE entry.stored_for = <<fetch.key[1], fetch.key[2]>>

\* C26: a call with caching enabled that returns a list without asking the
\* registry returns the list of an entry that was stored for its arguments and
\* whose age is at most the TTL.
CacheHonoursKeyAndTtl ==
    (fetch # None /\ fetch.use_cache /\ fetch.returned.ok /\ fetch.returned.requests = 0)
        => \E name \in DOMAIN fetch.before :
              LET entry == fetch.before[name]
              IN /\ StoredForCall(entry)
                 /\ ReturnedFrom(entry)
                 /\ fetch.now - entry.fetched_at <= TTL_MS

----------------------------------------------------------------------------
(* The editor applied again and again: ensure_*, then upserts, in any order *)

MaxEditLines == 3
MaxEdits == 2

\* a dependencies block written on one line, and two declarations on one line
OneLineBlock ==
    <<DEPENDENCIES, SP, LB, SP, "compileOnly", SP, QUOTE, CURSE_GROUP, COLON, TargetSlug,
      DASH, TargetProject, COLON, "100", QUOTE, SP, RB>>

TwoOnOneLine ==
    <<IND4, "compileOnly", SP, QUOTE, CURSE_GROUP, COLON, TargetSlug, DASH, TargetProject,
      COLON, "100", QUOTE, "; ", "compileOnly", SP, QUOTE, CURSE_GROUP, COLON, "jade",
      DASH, "22", COLON, "300", QUOTE>>

EditLines ==
    { <<>>,
      <<DEPENDENCIES, SP, LB>>,
      <<RB>>,
      OldCfLine,
      OtherCfLine,
      OneLineBlock,
      TwoOnOneLine }

EditLoaders == {"forge"}

EditScripts == {JoinLines(ls) : ls \in SeqsUpTo(EditLines, MaxEditLines)}

InitEdit ==
    /\ RestIdle
    /\ text \in EditScripts
    /\ prev = text
    /\ prev2 = text
    /\ lastOp = "init"
    /\ prevOp = "init"
    /\ UpsertIdle
    /\ LocateIdle
    /\ ResolveIdle

\* generate_dep, then update_or_insert_dependency, on what the edits before left
EditCf ==
    /\ UNCHANGED restVars
    /\ nops < MaxEdits
    /\ \E loader \in EditLoaders, file_id \in NewFileIds :
          /\ depLine' = generate_dep(loader, TargetSlug, TargetProject, file_id)
          /\ text' = IF depLine'.ok
                     THEN update_or_insert_dependency(text, TargetProject, depLine'.line)
                     ELSE text
          /\ args' = [op |-> "generate_dep", loader |-> loader, slug |-> TargetSlug,
                      id |-> TargetProject, file_id |-> file_id]
    /\ nops' = nops + 1
    /\ prev' = text
    /\ prev2' = prev
    /\ lastOp' = "upsert_cf"
    /\ prevOp' = lastOp
    /\ UNCHANGED <<locateVars, resolveVars>>

\* generate_mr_dep, then update_or_insert_dependency_mr, likewise
EditMr ==
    /\ UNCHANGED restVars
    /\ nops < MaxEdits
    /\ \E loader \in EditLoaders, version_id \in NewVersionIds :
          /\ depLine' = generate_mr_dep(loader, TargetMrSlug, version_id)
          /\ text' = IF depLine'.ok
                     THEN update_or_insert_dependency_mr(text, TargetMrSlug, depLine'.line)
                     ELSE text
          /\ args' = [op |-> "generate_mr_dep", loader |-> loader, slug |-> TargetMrSlug,
                      id |-> TargetMrSlug, version_id |-> version_id]
    /\ nops' = nops + 1
    /\ prev' = text
    /\ prev2' = prev
    /\ lastOp' = "upsert_mr"
    /\ prevOp' = lastOp
    /\ UNCHANGED <<locateVars, resolveVars>>

NextEdit ==
    \/ EnsureCurse
    \/ EnsureModrinth
    \/ EditCf
    \/ EditMr

SpecEdit == InitEdit /\ [][NextEdit]_vars

----------------------------------------------------------------------------
(* C29, C30: what a sequence of edits keeps *)

EditOps == {"ensure_curse", "ensure_modrinth", "upsert_cf", "upsert_mr"}

\* every closing brace closes a brace opened before it, and none stays open
BracesBalanced(s) ==
    /\ NeverNegative(s, 0, Len(s), 0)
    /\ CountTok(s, LB, 0, Len(s)) = CountTok(s, RB, 0, Len(s))

\* the tokens that name a block opened outside every other block
TopLevelNamed(s, name) ==
    {n \in 1..Len(s) : s[n] = name /\ BraceAfter(s, n) # 0 /\ ~Enclosed(s, n)}

EditBlockNames == {DEPENDENCIES, PLUGINS, REPOSITORIES}

\* C29: an edit of a script whose braces are balanced returns a script whose
\* braces are balanced, with every top-level block the script had; this holding
\* for each edit, it holds after every sequence of edits.
EditKeepsBraceBalance ==
    (lastOp \in EditOps /\ BracesBalanced(prev))
        => /\ BracesBalanced(text)
           /\ \A name \in EditBlockNames :
                 Cardinality(TopLevelNamed(text, name))
                    >= Cardinality(TopLevelNamed(prev, name))

\* the id tokens of the declarations of the module the last upsert was for
TargetIdTokens(s) ==
    IF lastOp = "upsert_cf" THEN CfIdTokens(s, args.id) ELSE MrIdTokens(s, args.id)

\* the first tokens of the coordinates of other modules
OtherCoordinates(s) ==
    {q \in 1..(Len(s) - 1) :
        /\ s[q] \in {CURSE_GROUP, MODRINTH_GROUP} /\ s[q + 1] = COLON
        /\ \A i \in TargetIdTokens(s) : q # i - 6 /\ q # i - 4}

\* the number of the line that holds token i
LineNumber(s, i) == CountTok(s, NL, 0, i)

\* the coordinate that begins at token q, up to the quote or the line end
RECURSIVE CoordinateEnd(_, _)
CoordinateEnd(s, o) ==
    IF o < Len(s) /\ s[o + 1] \notin {NL, QUOTE} THEN CoordinateEnd(s, o + 1) ELSE o

CoordinateText(s, q) == Slice(s, q - 1, CoordinateEnd(s, q))

\* the id the last upsert was given, as it stands in a declaration
GivenId == IF lastOp = "upsert_cf" THEN ToString(args.file_id) ELSE args.version_id

\* C30: an upsert on a script with at most one line that declares the module
\* leaves exactly one such line, with the id it was given, and leaves the
\* declarations of other modules as they were; this holding for each upsert, it
\* holds after every sequence of upserts.
SingleDeclarationPerModule ==
    (lastOp \in {"upsert_cf", "upsert_mr"} /\ depLine.ok
       /\ Cardinality({LineNumber(prev, i) : i \in TargetIdTokens(prev)}) <= 1)
        => /\ Cardinality({LineNumber(text, i) : i \in TargetIdTokens(text)}) = 1
           /\ \A i \in TargetIdTokens(text) : text[i] = GivenId
           /\ {CoordinateText(text, q) : q \in OtherCoordinates(text)}
                 = {CoordinateText(prev, q) : q \in OtherCoordinates(prev)}

====
